---- MODULE Spec2Model ----
(***************************************************************************)
(* wechat-channel: the WebSocket connection client (src/src/websocket.ts)  *)
(* and the gateway that owns it (src/src/runtime.ts, gateway.startAccount  *)
(* / stopAccount), for one account.                                        *)
(*                                                                         *)
(* A client owns the socket its field `ws` refers to.  Sockets the client  *)
(* created earlier and no longer refers to ("orphans") keep the handlers   *)
(* connect() installed on them, so their open and close events still run   *)
(* the client's onopen / onclose code.  A CLOSED socket fires no further   *)
(* event; an orphan that reaches CLOSED is dropped from the state.         *)
(***************************************************************************)
EXTENDS Integers, Sequences, FiniteSets, TLC

\* ---------------------------------------------------------------- bounds
\* Clients the gateway constructs for the account (one per startAccount).
MaxClients == 2
\* connect() is called by hand only while fewer than this many sockets and
\* reconnect timers of the client are in flight.
MaxInFlight == 2
\* Outbound primitives called by hand in one run.
MaxSends == 2
\* Messages the backend sends in one run of the inbound pipeline.
MaxEvents == 3
\* Frames other than messages the backend sends in one run.
MaxFrames == 2
MaxQueries == 2

\* ------------------------------------------------------- program constants
maxReconnectAttempts == 10
\* The debounce window of the README's example configuration, in ms.
DebounceWindow == 600

ClientIds == 1..MaxClients
NoClient == 0

\* readyState of a socket; "null" is the value of the field ws before
\* connect() and after disconnect().
ReadyStates == {"CONNECTING", "OPEN", "CLOSING", "CLOSED"}
PendingStates == {"CONNECTING", "OPEN", "CLOSING"}
LiveStates == {"CONNECTING", "OPEN"}

VARIABLES
    created,            \* number of clients constructed so far (ids 1..created)
    wsClients,          \* the registry entry of the account: a client id or NoClient
    aborted,            \* clients whose abort signal has fired
    ws,                 \* ws[c]: readyState of the socket this.ws refers to, or "null"
    orphans,            \* orphans[c][s]: sockets of c in state s that this.ws no longer refers to
    reconnectTimer,     \* reconnectTimer[c]: "null", "pending" (refers to a pending timer), "stale" (refers to a fired timer)
    leakedTimers,       \* leakedTimers[c]: pending timers whose handle was overwritten
    reconnectAttempts,  \* reconnectAttempts[c]
    delays,             \* delays[c]: the delays (ms) of the timers armed since reconnectAttempts[c] was last 0
    wire,               \* wire[c]: frames transmitted on the socket this.ws refers to
    running,            \* status.running of the account
    lastError,          \* status.lastError of the account
    sendLog,            \* one record per outbound primitive called so far: what the caller saw
    frameLog,           \* one record per inbound frame other than a message handled so far: its kind and the callback it fired
    outbox              \* the last call of an outbound entry point: its arguments, how it ended and what it did, in order

VARIABLES
    cfg,                \* the account's configuration (fixed for the run)
    pairingStore,       \* the allow list the pairing store holds
    env,                \* what the collaborators do in this run
    debounceMs,         \* inboundDebounceMs; 0 means no debouncer
    msgPool,            \* the messages the backend may send in this run
    budget,             \* messages the backend may still send
    received,           \* the messages received so far, in arrival order; a message's id is its position
    buckets,            \* the debouncer's buffers: bucket key -> buffered messages
    turns,              \* the calls of processWechatInboundMessage so far, in the order in which they ended
    suspended,          \* the calls of processWechatInboundMessage that wait at an await: the message and the call awaited
    toolLog             \* the calls of resolveWechatGroupToolPolicy so far: group, sender and the policy returned

connVars == <<created, wsClients, aborted, ws, orphans, reconnectTimer, leakedTimers,
              reconnectAttempts, delays, wire, running, lastError>>

\* What the operations of the connection's life cycle leave alone.
inVars == <<cfg, pairingStore, env, debounceMs, msgPool, budget, received, buckets, turns,
            suspended, toolLog>>

offConn == <<sendLog, frameLog, outbox, inVars>>

vars == <<connVars, offConn>>

NoOrphans == [s \in PendingStates |-> 0]

\* ------------------------------------------------------------- observers
OrphanCount(c) == orphans[c]["CONNECTING"] + orphans[c]["OPEN"] + orphans[c]["CLOSING"]

PendingTimers(c) == (IF reconnectTimer[c] = "pending" THEN 1 ELSE 0) + leakedTimers[c]

\* Sockets of client c that are connecting or open.
LiveSockets(c) ==
    (IF ws[c] \in LiveStates THEN 1 ELSE 0) + orphans[c]["CONNECTING"] + orphans[c]["OPEN"]

InFlight(c) ==
    (IF ws[c] \in PendingStates THEN 1 ELSE 0) + OrphanCount(c) + PendingTimers(c)

\* Sockets of clients 1..n that are connecting or open.
LiveSocketsUpTo[n \in 0..MaxClients] ==
    IF n = 0 THEN 0 ELSE LiveSockets(n) + LiveSocketsUpTo[n - 1]

\* Sockets of the account that are connecting or open, over all its clients.
AccountLiveSockets == LiveSocketsUpTo[MaxClients]

isConnected(c) == ws[c] = "OPEN"

\* ---------------------------------------------------------------- client
ReachedMaxAttempts_OffByOne(n) == n > maxReconnectAttempts

ReachedMaxAttempts_AtOnce(n) == n >= 1

\* scheduleReconnect gives up when the attempt counter has reached the maximum.
ReachedMaxAttempts(n) == n >= maxReconnectAttempts

reconnectDelay_FromOneSecond(n) ==
    IF 1000 * 2^(n - 1) < 30000 THEN 1000 * 2^(n - 1) ELSE 30000

reconnectDelay_NoCap(n) == 1000 * 2^n

\* Math.min(1000 * Math.pow(2, this.reconnectAttempts), 30000), computed
\* after the counter is incremented: n is the incremented counter.
reconnectDelay(n) == IF 1000 * 2^n < 30000 THEN 1000 * 2^n ELSE 30000

\* The outbound primitives: each builds one frame of its type and hands it
\* to send().
Primitives == {"send_text", "send_image", "send_voice", "send_video", "send_file", "send_emoji"}

\* A frame on the wire: its type and the primitive call that built it (0 for
\* the auth frame onopen sends).
AuthFrame == [type |-> "auth", call |-> 0]

sendWire_NoStateCheck(c, w, frame) == Append(w, frame)

\* send(data): transmits on this.ws when it is open; otherwise the frame is
\* discarded, nothing is kept for later.
sendWire(c, w, frame) == IF ws[c] = "OPEN" THEN Append(w, frame) ELSE w

\* What send(data) shows its caller: it returns normally in both branches,
\* after logging a warning when this.ws is not open.
sendOutcome(c) == IF ws[c] = "OPEN" THEN "sent" ELSE "warned"

\* connect(): this.ws = new WebSocket(url).  The socket this.ws referred to
\* is not closed: if it can still fire events it becomes an orphan.
connect(c) ==
    /\ ws' = [ws EXCEPT ![c] = "CONNECTING"]
    /\ orphans' = IF ws[c] \in PendingStates
                  THEN [orphans EXCEPT ![c][ws[c]] = @ + 1]
                  ELSE orphans
    /\ wire' = [wire EXCEPT ![c] = <<>>]

\* disconnect(): clears the timer the handle refers to, closes this.ws and
\* forgets it.  close() on a CONNECTING or OPEN socket starts its closing;
\* the close event of that socket is still to come.
disconnect(c) ==
    /\ reconnectTimer' = [reconnectTimer EXCEPT ![c] = "null"]
    /\ ws' = [ws EXCEPT ![c] = "null"]
    /\ orphans' = IF ws[c] \in PendingStates
                  THEN [orphans EXCEPT ![c]["CLOSING"] = @ + 1]
                  ELSE orphans
    /\ wire' = [wire EXCEPT ![c] = <<>>]

\* scheduleReconnect(): one more attempt and a new timer, unless the maximum
\* is reached.  The handle is overwritten without clearing the timer it
\* referred to.
scheduleReconnect(c) ==
    IF ReachedMaxAttempts(reconnectAttempts[c])
    THEN UNCHANGED <<reconnectAttempts, delays, reconnectTimer, leakedTimers>>
    ELSE /\ reconnectAttempts' = [reconnectAttempts EXCEPT ![c] = @ + 1]
         /\ delays' = [delays EXCEPT ![c] = Append(@, reconnectDelay(reconnectAttempts[c] + 1))]
         /\ reconnectTimer' = [reconnectTimer EXCEPT ![c] = "pending"]
         /\ leakedTimers' = IF reconnectTimer[c] = "pending"
                            THEN [leakedTimers EXCEPT ![c] = @ + 1]
                            ELSE leakedTimers

\* ------------------------------------------------------------ operations
\* gateway.startAccount: a new client c is registered under the account id
\* (replacing the entry, not the client, that was there) and connected.
startAccount(c) ==
    /\ created' = c
    /\ wsClients' = c
    /\ connect(c)
    /\ UNCHANGED <<aborted, reconnectTimer, leakedTimers, reconnectAttempts, delays,
                   running, lastError>>
    /\ UNCHANGED offConn

\* The account is started for the first time.
StartAccount ==
    /\ created = 0
    /\ startAccount(1)

\* The account is started again: nothing in startAccount looks at the client
\* an earlier call created, whether or not stopAccount ran in between.
RestartAccount ==
    /\ created > 0
    /\ created < MaxClients
    /\ startAccount(created + 1)

\* The abort listener startAccount registered for client c.
Abort(c) ==
    /\ c \in 1..created
    /\ c \notin aborted
    /\ aborted' = aborted \cup {c}
    /\ disconnect(c)
    /\ wsClients' = NoClient
    /\ UNCHANGED <<created, leakedTimers, reconnectAttempts, delays, running, lastError>>
    /\ UNCHANGED offConn

\* gateway.stopAccount
StopAccount ==
    /\ created > 0
    /\ IF wsClients # NoClient
       THEN /\ disconnect(wsClients)
            /\ wsClients' = NoClient
       ELSE UNCHANGED <<wsClients, reconnectTimer, ws, orphans, wire>>
    /\ running' = FALSE
    /\ UNCHANGED <<created, aborted, leakedTimers, reconnectAttempts, delays, lastError>>
    /\ UNCHANGED offConn

\* connect() called by the holder of an existing client.
Connect(c) ==
    /\ c \in 1..created
    /\ InFlight(c) < MaxInFlight
    /\ connect(c)
    /\ UNCHANGED <<created, wsClients, aborted, reconnectTimer, leakedTimers,
                   reconnectAttempts, delays, running, lastError>>
    /\ UNCHANGED offConn

\* disconnect() called by the holder of an existing client.
Disconnect(c) ==
    /\ c \in 1..created
    /\ disconnect(c)
    /\ UNCHANGED <<created, wsClients, aborted, leakedTimers, reconnectAttempts, delays,
                   running, lastError>>
    /\ UNCHANGED offConn

\* ws.onopen of the socket this.ws refers to.
SocketOpen(c) ==
    /\ ws[c] = "CONNECTING"
    /\ ws' = [ws EXCEPT ![c] = "OPEN"]
    /\ reconnectAttempts' = [reconnectAttempts EXCEPT ![c] = 0]
    /\ delays' = [delays EXCEPT ![c] = <<>>]
    /\ running' = TRUE
    /\ lastError' = "none"
    /\ wire' = [wire EXCEPT ![c] = Append(@, AuthFrame)]
    /\ UNCHANGED <<created, wsClients, aborted, orphans, reconnectTimer, leakedTimers>>
    /\ UNCHANGED offConn

\* ws.onopen of an orphan: the handler runs on the client, and its send()
\* goes to whatever this.ws refers to now.
OrphanOpen(c) ==
    /\ orphans[c]["CONNECTING"] > 0
    /\ orphans' = [orphans EXCEPT ![c]["CONNECTING"] = @ - 1, ![c]["OPEN"] = @ + 1]
    /\ reconnectAttempts' = [reconnectAttempts EXCEPT ![c] = 0]
    /\ delays' = [delays EXCEPT ![c] = <<>>]
    /\ running' = TRUE
    /\ lastError' = "none"
    /\ wire' = [wire EXCEPT ![c] = sendWire(c, @, AuthFrame)]
    /\ UNCHANGED <<created, wsClients, aborted, ws, reconnectTimer, leakedTimers>>
    /\ UNCHANGED offConn

\* The server starts the closing handshake on the socket this.ws refers to.
RemoteClosing(c) ==
    /\ ws[c] = "OPEN"
    /\ ws' = [ws EXCEPT ![c] = "CLOSING"]
    /\ UNCHANGED <<created, wsClients, aborted, orphans, reconnectTimer, leakedTimers,
                   reconnectAttempts, delays, wire, running, lastError>>
    /\ UNCHANGED offConn

\* The socket this.ws refers to closes: ws.onerror first when the transport
\* failed, then ws.onclose.  A socket that closes before it opened has
\* failed to connect: its error event always comes first.
SocketClose(c, failed) ==
    /\ ws[c] \in PendingStates
    /\ ws[c] = "CONNECTING" => failed
    /\ ws' = [ws EXCEPT ![c] = "CLOSED"]
    /\ lastError' = IF failed THEN "WebSocket error" ELSE lastError
    /\ running' = FALSE
    /\ scheduleReconnect(c)
    /\ UNCHANGED <<created, wsClients, aborted, orphans, wire>>
    /\ UNCHANGED offConn

\* An orphan in state s closes: the same handlers run on the client.
OrphanClose(c, s, failed) ==
    /\ orphans[c][s] > 0
    /\ s = "CONNECTING" => failed
    /\ orphans' = [orphans EXCEPT ![c][s] = @ - 1]
    /\ lastError' = IF failed THEN "WebSocket error" ELSE lastError
    /\ running' = FALSE
    /\ scheduleReconnect(c)
    /\ UNCHANGED <<created, wsClients, aborted, ws, wire>>
    /\ UNCHANGED offConn

\* The timer the handle refers to fires: connect().
TimerFire(c) ==
    /\ reconnectTimer[c] = "pending"
    /\ reconnectTimer' = [reconnectTimer EXCEPT ![c] = "stale"]
    /\ connect(c)
    /\ UNCHANGED <<created, wsClients, aborted, leakedTimers, reconnectAttempts, delays,
                   running, lastError>>
    /\ UNCHANGED offConn

\* A timer whose handle was overwritten fires: connect().
LeakedTimerFire(c) ==
    /\ leakedTimers[c] > 0
    /\ leakedTimers' = [leakedTimers EXCEPT ![c] = @ - 1]
    /\ connect(c)
    /\ UNCHANGED <<created, wsClients, aborted, reconnectTimer, reconnectAttempts, delays,
                   running, lastError>>
    /\ UNCHANGED offConn

\* An outbound primitive called on client c: one frame handed to send().
SendPrimitive(c, kind) ==
    /\ c \in 1..created
    /\ Len(sendLog) < MaxSends
    /\ sendLog' = Append(sendLog, [open |-> isConnected(c), outcome |-> sendOutcome(c)])
    /\ wire' = [wire EXCEPT ![c] = sendWire(c, @, [type |-> kind, call |-> Len(sendLog) + 1])]
    /\ UNCHANGED <<created, wsClients, aborted, ws, orphans, reconnectTimer, leakedTimers,
                   reconnectAttempts, delays, running, lastError>>
    /\ UNCHANGED <<frameLog, outbox, inVars>>

\* The kinds of inbound frame other than "message": the four other cases of
\* the switch in onmessage, a type the switch does not know, and data that
\* JSON.parse rejects.
FrameKinds == {"ping", "error", "auth", "send_result", "unknown", "malformed"}

frameCallback_UnknownIsError(kind) ==
    IF kind \in {"error", "unknown"} THEN "onError" ELSE "none"

\* The callback onmessage invokes for a frame of the kind.
frameCallback(kind) == IF kind = "error" THEN "onError" ELSE "none"

\* ws.onmessage for a frame that is not a message, on an open socket of
\* client c.  The gateway's onError stores the frame's message as lastError.
OnFrame(c, kind) ==
    /\ ws[c] = "OPEN" \/ orphans[c]["OPEN"] > 0
    /\ Len(frameLog) < MaxFrames
    /\ frameLog' = Append(frameLog, [kind |-> kind, callback |-> frameCallback(kind)])
    /\ lastError' = IF frameCallback(kind) = "onError" THEN "backend error" ELSE lastError
    /\ UNCHANGED <<created, wsClients, aborted, ws, orphans, reconnectTimer, leakedTimers,
                   reconnectAttempts, delays, wire, running>>
    /\ UNCHANGED <<sendLog, outbox, inVars>>


\* ============================================================ access policy
\* A string is a sequence of tokens.  A channel prefix ("wx:", "wechat:",
\* "wechat-channel:", in either case) and the alias prefix "group:" are one
\* token each; " " is white space; every other token is one character.
\* null, undefined and "" are all the empty sequence where the code treats
\* them alike (x?.trim() ?? "", a || b).
EmptyStr == <<>>
WhiteSpace == {" "}
ChannelPrefixes == {"wx:", "WX:", "wechat:", "wechat-channel:"}

\* String.prototype.toLowerCase, token by token.
LowerToken(t) ==
    CASE t = "A" -> "a"
      [] t = "B" -> "b"
      [] t = "WX:" -> "wx:"
      [] OTHER -> t

toLowerCase(s) == [i \in 1..Len(s) |-> LowerToken(s[i])]

RECURSIVE TrimLeft(_)
TrimLeft(s) ==
    IF s # <<>> /\ Head(s) \in WhiteSpace THEN TrimLeft(Tail(s)) ELSE s

RECURSIVE TrimRight(_)
TrimRight(s) ==
    IF s # <<>> /\ s[Len(s)] \in WhiteSpace THEN TrimRight(SubSeq(s, 1, Len(s) - 1)) ELSE s

\* String.prototype.trim
Trim(s) == TrimRight(TrimLeft(s))

\* normalizeWechatTarget: trims and removes one leading channel prefix; the
\* result for a blank string is undefined (here: the empty string, which
\* every caller maps it to).
normalizeWechatTarget(raw) ==
    LET trimmed == Trim(raw) IN
    IF trimmed = <<>> THEN <<>>
    ELSE IF Head(trimmed) \in ChannelPrefixes THEN Tail(trimmed) ELSE trimmed

Wildcard == <<"*">>

normalizeAllowEntry(entry) ==
    LET raw == Trim(entry) IN
    IF raw = <<>> THEN <<>>
    ELSE IF raw = Wildcard THEN Wildcard
    ELSE normalizeWechatTarget(raw)

NonEmpty(s) == s # <<>>

normalizeAllowFromEntries(allowFrom) ==
    SelectSeq([i \in 1..Len(allowFrom) |-> Trim(normalizeAllowEntry(allowFrom[i]))], NonEmpty)

resolveWechatSenderId(msg) ==
    IF msg.isGroupMsg
    THEN (IF msg.actualSender # <<>> THEN msg.actualSender ELSE msg.fromUserName)
    ELSE msg.fromUserName

isSenderAllowed_CaseSensitive(senderId, allowFrom) ==
    \/ \E i \in 1..Len(allowFrom) : allowFrom[i] = Wildcard
    \/ \E i \in 1..Len(allowFrom) : normalizeAllowEntry(allowFrom[i]) = normalizeAllowEntry(senderId)

isSenderAllowed(senderId, allowFrom) ==
    \/ \E i \in 1..Len(allowFrom) : allowFrom[i] = Wildcard
    \/ LET normalizedSender == toLowerCase(normalizeAllowEntry(senderId)) IN
       \E i \in 1..Len(allowFrom) :
           toLowerCase(normalizeAllowEntry(allowFrom[i])) = normalizedSender

\* `group:${groupId}`
GroupAlias(groupId) == <<"group:">> \o groupId

isGroupAllowed_WildcardFirst(groupId, groups) ==
    IF Wildcard \in DOMAIN groups
    THEN groups[Wildcard].allow # "false" /\ groups[Wildcard].enabled # "false"
    ELSE groupId \in DOMAIN groups \/ GroupAlias(groupId) \in DOMAIN groups

\* An entry of the groups table: allow, enabled and requireMention are each
\* "true", "false" or "unset".
isGroupAllowed(groupId, groups) ==
    IF DOMAIN groups = {} THEN FALSE
    ELSE IF groupId \in DOMAIN groups
         THEN ~(groups[groupId].allow = "false" \/ groups[groupId].enabled = "false")
    ELSE IF GroupAlias(groupId) \in DOMAIN groups
         THEN ~(groups[GroupAlias(groupId)].allow = "false"
                \/ groups[GroupAlias(groupId)].enabled = "false")
    ELSE IF Wildcard \in DOMAIN groups
         THEN groups[Wildcard].allow # "false" /\ groups[Wildcard].enabled # "false"
    ELSE FALSE

resolveGroupRequireMention_WildcardFirst(c, rawGroupId) ==
    LET groups == c.groups
        groupId == Trim(rawGroupId)
    IN  IF Wildcard \in DOMAIN groups /\ groups[Wildcard].requireMention # "unset"
        THEN groups[Wildcard].requireMention = "true"
        ELSE IF groupId \in DOMAIN groups /\ groups[groupId].requireMention # "unset"
        THEN groups[groupId].requireMention = "true"
        ELSE IF c.requireMention # "unset" THEN c.requireMention = "true"
        ELSE TRUE

resolveGroupRequireMention(c, rawGroupId) ==
    LET groups == c.groups
        groupId == Trim(rawGroupId)
        resolved ==
            IF groupId = <<>> THEN "unset"
            ELSE IF groupId \in DOMAIN groups THEN groups[groupId].requireMention
            ELSE IF GroupAlias(groupId) \in DOMAIN groups
                 THEN groups[GroupAlias(groupId)].requireMention
            ELSE "unset"
    IN  IF resolved # "unset" THEN resolved = "true"
        ELSE IF Wildcard \in DOMAIN groups /\ groups[Wildcard].requireMention # "unset"
             THEN groups[Wildcard].requireMention = "true"
        ELSE IF c.requireMention # "unset" THEN c.requireMention = "true"
        ELSE TRUE

RECURSIVE AllLists(_)
AllLists(groupMembers) ==
    IF DOMAIN groupMembers = {} THEN <<>>
    ELSE LET k == CHOOSE x \in DOMAIN groupMembers : TRUE
         IN  groupMembers[k] \o AllLists([y \in (DOMAIN groupMembers) \ {k} |-> groupMembers[y]])

resolveGroupMemberAllowFrom_AnyGroup(c, rawGroupId) ==
    normalizeAllowFromEntries(AllLists(c.groupMembers))

resolveGroupMemberAllowFrom(c, rawGroupId) ==
    LET groupMembers == c.groupMembers
        groupId == Trim(rawGroupId)
    IN  IF groupId = <<>> THEN <<>>
        ELSE IF groupId \in DOMAIN groupMembers
             THEN normalizeAllowFromEntries(groupMembers[groupId])
        ELSE IF GroupAlias(groupId) \in DOMAIN groupMembers
             THEN normalizeAllowFromEntries(groupMembers[GroupAlias(groupId)])
        ELSE <<>>

\* The host's resolveToolsBySender: the policy filed under the sender's id,
\* if any ("unset" is undefined).
resolveToolsBySender(toolsBySender, senderId) ==
    IF senderId \in DOMAIN toolsBySender THEN toolsBySender[senderId] ELSE "unset"

resolveWechatGroupToolPolicy_GeneralFirst(c, rawGroupId, senderId) ==
    LET groups == c.groups
        groupId == Trim(rawGroupId)
        policyOf(key) ==
            IF key = <<>> \/ key \notin DOMAIN groups THEN "unset"
            ELSE IF groups[key].tools # "unset" THEN groups[key].tools
            ELSE resolveToolsBySender(groups[key].toolsBySender, senderId)
        alias == IF groupId # <<>> THEN GroupAlias(groupId) ELSE <<>>
    IN  IF policyOf(groupId) # "unset" THEN policyOf(groupId)
        ELSE IF policyOf(alias) # "unset" THEN policyOf(alias)
        ELSE policyOf(Wildcard)

\* resolveWechatGroupToolPolicy: the candidates are the group id, its alias
\* and "*"; an entry yields its policy for the sender, else its tools.
resolveWechatGroupToolPolicy(c, rawGroupId, senderId) ==
    LET groups == c.groups
        groupId == Trim(rawGroupId)
        policyOf(key) ==
            IF key = <<>> \/ key \notin DOMAIN groups THEN "unset"
            ELSE IF resolveToolsBySender(groups[key].toolsBySender, senderId) # "unset"
            THEN resolveToolsBySender(groups[key].toolsBySender, senderId)
            ELSE groups[key].tools
        alias == IF groupId # <<>> THEN GroupAlias(groupId) ELSE <<>>
    IN  IF policyOf(groupId) # "unset" THEN policyOf(groupId)
        ELSE IF policyOf(alias) # "unset" THEN policyOf(alias)
        ELSE policyOf(Wildcard)

\* msg.isMentioned is a boolean, a number, null or absent.
MentionFlags == {"true", "false", "1", "0", "null", "undefined"}

\* Boolean(flag)
BooleanOf(flag) == flag \in {"true", "1"}

isAtMe_Truthy(mentionFlag) == mentionFlag \notin {"false", "0"}

\* isAtMe in processWechatInboundMessage
isAtMe(mentionFlag) ==
    IF mentionFlag # "undefined" /\ mentionFlag # "null" THEN BooleanOf(mentionFlag) ELSE FALSE

\* Texts the host's isControlCommandMessage recognises.
ControlCommands == {<<"/">>}
isControlCommandMessage(text) == text \in ControlCommands

\* The host's resolveCommandAuthorizedFromAuthorizers for one authorizer.
resolveCommandAuthorizedFromAuthorizers(useAccessGroups, configured, allowed) ==
    IF ~useAccessGroups THEN TRUE ELSE configured /\ allowed

effectiveAllowFrom_ConfigOnly(c, isGroupMsg, dmPolicy, shouldComputeAuth, store, storeReadFails) ==
    normalizeAllowFromEntries(c.allowFrom)

\* effectiveAllowFrom in processWechatInboundMessage: the configured list
\* and, for a direct message, what the pairing store's allow list holds
\* (nothing when reading the store fails).
effectiveAllowFrom(c, isGroupMsg, dmPolicy, shouldComputeAuth, store, storeReadFails) ==
    LET allowFromConfig == normalizeAllowFromEntries(c.allowFrom)
        storeAllowFrom ==
            IF ~isGroupMsg /\ (dmPolicy # "open" \/ shouldComputeAuth)
            THEN normalizeAllowFromEntries(IF storeReadFails THEN <<>> ELSE store)
            ELSE <<>>
    IN  allowFromConfig \o storeAllowFrom

\* What one call of processWechatInboundMessage did.
\*   kind: where the call ended; "forwarded" is the only one that hands the
\*         turn to the reply pipeline, "threw" the only one that throws;
\*   upserts: calls of upsertPairingRequest; reply: the pairing reply.
Outcome(kind, upserts, reply) == [kind |-> kind, upserts |-> upserts, reply |-> reply]

pairingReply_Always(e) ==
    IF e.connected THEN "sent" ELSE "failed"

\* The pairing reply: built and delivered only for a newly created request;
\* deliverWechatReply throws when the client is not connected, and the throw
\* is caught.
pairingReply(e) ==
    IF e.upsert = "created"
    THEN (IF e.connected THEN "sent" ELSE "failed")
    ELSE "none"

\* account.config.dmPolicy ?? "allowlist"
resolveDmPolicy(c) == IF c.dmPolicy = "unset" THEN "allowlist" ELSE c.dmPolicy

\* account.config.groupPolicy ?? defaultGroupPolicy ?? "allowlist"
resolveGroupPolicy(c) ==
    IF c.groupPolicy # "unset" THEN c.groupPolicy
    ELSE IF c.defaultGroupPolicy # "unset" THEN c.defaultGroupPolicy
    ELSE "allowlist"

\* The direct-message gate and what follows it; commandAuthorized is
\* undefined, which is not true, when it is not computed.
dmGate(msg, c, e, store) ==
    LET fromWxid == resolveWechatSenderId(msg)
        dmPolicy == resolveDmPolicy(c)
        allowFrom == effectiveAllowFrom(c, msg.isGroupMsg, dmPolicy, e.shouldComputeAuth,
                                        store, e.storeReadFails)
        senderAllowedForCommands == isSenderAllowed(fromWxid, allowFrom)
        commandAuthorized ==
            IF e.shouldComputeAuth
            THEN resolveCommandAuthorizedFromAuthorizers(c.useAccessGroups, Len(allowFrom) > 0,
                                                         senderAllowedForCommands)
            ELSE FALSE
    IN  IF ~msg.isGroupMsg /\ dmPolicy = "disabled" THEN Outcome("dm_disabled", 0, "none")
        ELSE IF ~msg.isGroupMsg /\ dmPolicy # "open" /\ ~senderAllowedForCommands
        THEN (IF dmPolicy = "pairing"
              THEN (IF e.upsert = "throws"
                    THEN Outcome("threw", 1, "none")
                    ELSE Outcome("pairing", 1, pairingReply(e)))
              ELSE Outcome("dm_unauthorized", 0, "none"))
        ELSE IF msg.isGroupMsg /\ isControlCommandMessage(Trim(msg.content)) /\ ~commandAuthorized
        THEN Outcome("cmd_unauthorized", 0, "none")
        ELSE Outcome("forwarded", 0, "none")

\* processWechatInboundMessage
processWechatInboundMessage(msg, c, e, store) ==
    LET fromWxid == resolveWechatSenderId(msg)
        chatId == msg.fromUserName
        content == Trim(msg.content)
        groupPolicy == resolveGroupPolicy(c)
    IN  IF content = <<>> THEN Outcome("empty", 0, "none")
        ELSE IF msg.isGroupMsg /\ groupPolicy = "disabled"
        THEN Outcome("group_disabled", 0, "none")
        ELSE IF /\ msg.isGroupMsg
                /\ groupPolicy = "allowlist"
                /\ ~isGroupAllowed(chatId, c.groups)
                /\ ~isSenderAllowed(fromWxid, resolveGroupMemberAllowFrom(c, chatId))
        THEN Outcome("group_not_allowed", 0, "none")
        ELSE IF /\ msg.isGroupMsg
                /\ resolveGroupRequireMention(c, chatId)
                /\ ~isAtMe(msg.isMentioned)
        THEN Outcome("no_mention", 0, "none")
        ELSE dmGate(msg, c, e, store)

\* ======================================================= inbound pipeline
\* Lines of a merged text are joined by "\n", one token.
RECURSIVE JoinLines(_)
JoinLines(lines) ==
    IF lines = <<>> THEN <<>>
    ELSE IF Len(lines) = 1 THEN lines[1]
    ELSE lines[1] \o <<"\n">> \o JoinLines(Tail(lines))

TrimmedContents(entries) == [i \in 1..Len(entries) |-> Trim(entries[i].content)]

mergeWechatInboundMessages_LastOnly(entries) == entries[Len(entries)]

mergeWechatInboundMessages_Untrimmed(entries) ==
    LET last == entries[Len(entries)]
        contents == [i \in 1..Len(entries) |-> entries[i].content]
        wasMentioned == \E i \in 1..Len(entries) : BooleanOf(entries[i].isMentioned)
    IN  [last EXCEPT !.content = JoinLines(SelectSeq(contents, NonEmpty)),
                     !.isMentioned = IF wasMentioned THEN "true" ELSE last.isMentioned]

mergeWechatInboundMessages(entries) ==
    LET last == entries[Len(entries)]
        mergedContent == JoinLines(SelectSeq(TrimmedContents(entries), NonEmpty))
        wasMentioned == \E i \in 1..Len(entries) : BooleanOf(entries[i].isMentioned)
        content == IF mergedContent # <<>> THEN mergedContent ELSE last.content
    IN  [last EXCEPT !.content = content,
                     !.isMentioned = IF wasMentioned THEN "true" ELSE last.isMentioned]

\* The message inboundDebouncer.onFlush hands to processWechatInboundMessage.
onFlushMessage(entries) ==
    IF Len(entries) = 1 THEN entries[1] ELSE mergeWechatInboundMessages(entries)

\* One call of onFlush: the turn it passes to processing and what became of it.
onFlush(entries) ==
    [ids |-> [i \in 1..Len(entries) |-> entries[i].id],
     msg |-> onFlushMessage(entries),
     res |-> processWechatInboundMessage(onFlushMessage(entries), cfg, env, pairingStore)]

CHANNEL_ID == <<"wechat-channel">>
AccountId == <<"default">>

buildKey_ChatOnly(msg) ==
    LET chatId == Trim(msg.fromUserName) IN
    IF chatId = <<>> THEN <<>>
    ELSE CHANNEL_ID \o <<":">> \o AccountId \o <<":">> \o chatId

\* inboundDebouncer.buildKey; no key is the empty sequence.
buildKey(msg) ==
    LET chatId == Trim(msg.fromUserName)
        senderId == resolveWechatSenderId(msg)
    IN  IF chatId = <<>> THEN <<>>
        ELSE IF senderId = <<>> THEN <<>>
        ELSE CHANNEL_ID \o <<":">> \o AccountId \o <<":">> \o chatId \o <<":">> \o senderId

shouldDebounce_Always(msg) == TRUE

\* inboundDebouncer.shouldDebounce
shouldDebounce(msg) ==
    LET text == Trim(msg.content) IN
    IF text = <<>> THEN FALSE ELSE ~isControlCommandMessage(text)

Without(f, k) == [x \in (DOMAIN f) \ {k} |-> f[x]]
With(f, k, v) == [x \in (DOMAIN f) \cup {k} |-> IF x = k THEN v ELSE f[x]]

\* The host's debouncer, enqueue(item): an item that cannot be buffered
\* flushes the bucket of its key, if any, and is then flushed on its own; an
\* item that can is appended to the bucket of its key and restarts the
\* bucket's timer.
enqueue(item) ==
    LET key == buildKey(item)
        canDebounce == debounceMs > 0 /\ shouldDebounce(item)
    IN  IF ~canDebounce \/ key = <<>>
        THEN /\ buckets' = IF key # <<>> /\ key \in DOMAIN buckets
                           THEN Without(buckets, key) ELSE buckets
             /\ turns' = IF key # <<>> /\ key \in DOMAIN buckets
                         THEN turns \o <<onFlush(buckets[key]), onFlush(<<item>>)>>
                         ELSE Append(turns, onFlush(<<item>>))
        ELSE /\ buckets' = IF key \in DOMAIN buckets
                           THEN [buckets EXCEPT ![key] = Append(@, item)]
                           ELSE With(buckets, key, <<item>>)
             /\ turns' = turns

\* handleWechatInboundMessage
handleWechatInboundMessage(item) ==
    IF debounceMs = 0
    THEN /\ turns' = Append(turns, [ids |-> <<item.id>>, msg |-> item,
                                   res |-> processWechatInboundMessage(item, cfg, env, pairingStore)])
         /\ buckets' = buckets
    ELSE enqueue(item)

\* ws.onmessage with a frame of type "message": options.onMessage.
OnMessage(m) ==
    /\ budget > 0
    /\ m \in msgPool
    /\ LET item == [m EXCEPT !.id = Len(received) + 1] IN
        /\ received' = Append(received, item)
        /\ handleWechatInboundMessage(item)
    /\ budget' = budget - 1
    /\ UNCHANGED <<cfg, pairingStore, env, debounceMs, msgPool, toolLog, suspended>>
    /\ UNCHANGED <<connVars, sendLog, frameLog, outbox>>

\* The idle timer of the bucket of key k elapses: the bucket is removed and
\* flushed.
TimerFlush(k) ==
    /\ k \in DOMAIN buckets
    /\ buckets' = Without(buckets, k)
    /\ turns' = Append(turns, onFlush(buckets[k]))
    /\ UNCHANGED <<cfg, pairingStore, env, debounceMs, msgPool, toolLog, suspended, budget, received>>
    /\ UNCHANGED <<connVars, sendLog, frameLog, outbox>>

\* The calls of processWechatInboundMessage that wait for the host:
\* readAllowFromStore, awaited for a direct message with text unless the DM
\* policy is open and no command authorization is computed, and
\* recordInboundSession, awaited for every message that passed the gates,
\* just before the turn is handed to the reply pipeline.
Awaits == {"readAllowFromStore", "recordInboundSession"}

readsStore(msg) ==
    /\ Trim(msg.content) # <<>>
    /\ ~msg.isGroupMsg
    /\ resolveDmPolicy(cfg) # "open" \/ env.shouldComputeAuth

\* The call for item runs from the point it is at until it ends or reaches
\* the next await.  Its outcome is that of the whole function: nothing it
\* reads changes during a run.
runOn(item, at) ==
    LET res == processWechatInboundMessage(item, cfg, env, pairingStore)
        wait(call) == suspended' = (suspended \ {[item |-> item, at |-> at]})
                                       \cup {[item |-> item, at |-> call]}
        end == /\ suspended' = suspended \ {[item |-> item, at |-> at]}
               /\ turns' = Append(turns, [ids |-> <<item.id>>, msg |-> item, res |-> res])
    IN  IF at = "start" /\ readsStore(item)
        THEN wait("readAllowFromStore") /\ turns' = turns
        ELSE IF at # "recordInboundSession" /\ res.kind = "forwarded"
        THEN wait("recordInboundSession") /\ turns' = turns
        ELSE end

\* ws.onmessage with a frame of type "message", no debouncer: the handler is
\* an async function the socket does not wait for; it runs up to its first
\* await.
MessageArrives(m) ==
    /\ budget > 0
    /\ debounceMs = 0
    /\ m \in msgPool
    /\ LET item == [m EXCEPT !.id = Len(received) + 1] IN
        /\ received' = Append(received, item)
        /\ runOn(item, "start")
    /\ budget' = budget - 1
    /\ UNCHANGED <<cfg, pairingStore, env, debounceMs, msgPool, toolLog, buckets>>
    /\ UNCHANGED <<connVars, sendLog, frameLog, outbox>>

\* The promise a suspended call awaits is settled: the call goes on.
Resume(h) ==
    /\ h \in suspended
    /\ runOn(h.item, h.at)
    /\ UNCHANGED <<cfg, pairingStore, env, debounceMs, msgPool, toolLog, budget, received, buckets>>
    /\ UNCHANGED <<connVars, sendLog, frameLog, outbox>>

\* ------------------------------------------------------ inputs of the runs
\* Identifiers.
IdA == <<"a">>
IdAUpper == <<"A">>
IdB == <<"b">>
IdWxA == <<"wx:", "a">>
IdWxWxA == <<"wx:", "wx:", "a">>
GroupG == <<"g">>

\* Texts: a line, another line, a control command, a blank text.
TextX == <<"x">>
TextY == <<"y">>
TextCommand == <<"/">>
TextBlank == <<" ">>

NoEntries == <<>>
GroupEntry(allow, enabled, requireMention) ==
    [allow |-> allow, enabled |-> enabled, requireMention |-> requireMention]
OnlyKey(k, v) == [x \in {k} |-> v]

\* The account's configuration with every optional field absent.
DefaultConfig ==
    [dmPolicy |-> "unset", allowFrom |-> <<>>, groupPolicy |-> "unset",
     defaultGroupPolicy |-> "unset", groups |-> NoEntries, groupMembers |-> NoEntries,
     requireMention |-> "unset", useAccessGroups |-> TRUE]

\* What the collaborators do in a run: reading the pairing store fails or
\* not, shouldComputeCommandAuthorized, upsertPairingRequest (a new request,
\* an existing one, a throw), and whether the client is connected when a
\* pairing reply is delivered.
Envs ==
    [storeReadFails : BOOLEAN, shouldComputeAuth : BOOLEAN,
     upsert : {"created", "existing", "throws"}, connected : BOOLEAN]

QuietEnv ==
    [storeReadFails |-> FALSE, shouldComputeAuth |-> FALSE, upsert |-> "created",
     connected |-> TRUE]

Message(isGroupMsg, fromUserName, actualSender, content, isMentioned) ==
    [id |-> 0, isGroupMsg |-> isGroupMsg, fromUserName |-> fromUserName,
     actualSender |-> actualSender, content |-> content, isMentioned |-> isMentioned]

DirectConfigs ==
    {[DefaultConfig EXCEPT !.dmPolicy = p, !.allowFrom = l] :
        p \in {"pairing", "allowlist", "open", "disabled", "unset"},
        l \in {<<>>, <<IdA>>, <<Wildcard>>, <<IdWxA>>, <<IdWxWxA>>}}

DirectMessages ==
    {Message(FALSE, s, <<>>, t, "undefined") :
        s \in {IdA, IdAUpper, IdB, IdWxWxA, EmptyStr}, t \in {TextX, TextCommand, TextBlank}}

GroupTables ==
    {NoEntries,
     OnlyKey(GroupG, GroupEntry("unset", "unset", "unset")),
     OnlyKey(GroupG, GroupEntry("false", "unset", "unset")),
     OnlyKey(GroupG, GroupEntry("unset", "unset", "false")),
     OnlyKey(GroupAlias(GroupG), GroupEntry("unset", "unset", "true")),
     OnlyKey(Wildcard, GroupEntry("unset", "unset", "false")),
     With(OnlyKey(GroupG, GroupEntry("false", "unset", "false")),
          Wildcard, GroupEntry("true", "unset", "true")),
     With(OnlyKey(GroupG, GroupEntry("unset", "unset", "unset")),
          Wildcard, GroupEntry("unset", "false", "true")),
     With(OnlyKey(GroupAlias(GroupG), GroupEntry("unset", "false", "unset")),
          Wildcard, GroupEntry("unset", "unset", "unset"))}

GroupConfigs ==
    {[DefaultConfig EXCEPT !.groupPolicy = p, !.groups = g, !.groupMembers = gm,
                           !.requireMention = rm, !.allowFrom = l] :
        p \in {"open", "disabled", "allowlist", "unset"},
        g \in GroupTables,
        gm \in {NoEntries, OnlyKey(GroupG, <<IdB>>), OnlyKey(GroupAlias(GroupG), <<IdA>>),
                OnlyKey(IdA, <<IdB>>)},
        rm \in {"unset", "false"},
        l \in {<<>>, <<IdA>>}}

GroupMessages ==
    {Message(TRUE, GroupG, s, t, f) :
        s \in {IdA, IdB, <<>>}, t \in {TextX, TextCommand}, f \in MentionFlags}

\* ===================================================== outbound delivery
\* A text is a sequence of one-character tokens; "\n" is the line break.
MaxTextLen == 3
MaxLimit == 3

\* !text.trim(): nothing but white space and line breaks.
isBlank(text) == \A i \in 1..Len(text) : text[i] \in WhiteSpace \cup {"\n"}

RECURSIVE chunker_DropsRest(_, _)
chunker_DropsRest(text, limit) ==
    IF Len(text) > limit
    THEN <<SubSeq(text, 1, limit)>> \o chunker_DropsRest(SubSeq(text, limit + 1, Len(text)), limit)
    ELSE <<>>

\* outbound.chunker: slices of limit characters while more than limit
\* characters remain, then what remains if anything does.
RECURSIVE chunker(_, _)
chunker(text, limit) ==
    IF Len(text) > limit
    THEN <<SubSeq(text, 1, limit)>> \o chunker(SubSeq(text, limit + 1, Len(text)), limit)
    ELSE IF Len(text) > 0 THEN <<text>> ELSE <<>>

\* The host's chunkMarkdownTextWithMode: "length" slices by character count;
\* "newline" splits at the line breaks, leaves out the empty lines and slices
\* a line that is longer than the limit.
RECURSIVE chunkMarkdownTextWithMode(_, _, _)
chunkMarkdownTextWithMode(text, limit, mode) ==
    IF mode = "length" \/ \A i \in 1..Len(text) : text[i] # "\n" THEN chunker(text, limit)
    ELSE LET p == CHOOSE i \in 1..Len(text) :
                      text[i] = "\n" /\ \A j \in 1..(i - 1) : text[j] # "\n"
         IN  chunker(SubSeq(text, 1, p - 1), limit)
                 \o chunkMarkdownTextWithMode(SubSeq(text, p + 1, Len(text)), limit, mode)

\* resolveWechatOutboundTarget: "" for a blank destination (undefined in the
\* code) and for one that is nothing but a channel prefix; both make
\* requireWechatOutboundTarget throw.
resolveWechatOutboundTarget(raw) ==
    LET trimmed == Trim(raw) IN
    IF trimmed = <<>> THEN <<>> ELSE normalizeWechatTarget(trimmed)

\* A media reference is what its URL string holds. scheme "" is the empty or
\* blank string; name is the last segment of the path; emoji says which of
\* md5 and size the URL carries ("none", "md5", "both"); duration and thumb
\* say whether the query has a duration and a thumbnail URL; qname is the
\* file name given in the query.
NoUrl ==
    [scheme |-> "", name |-> <<>>, emoji |-> "none", duration |-> FALSE, thumb |-> FALSE,
     qname |-> <<>>]

\* The hints of a media send: contentType "unset" and fileName <<>> are no
\* hint; duration stands for voiceDuration and videoDuration, emoji for
\* emojiMd5 and emojiSize.
NoHints ==
    [contentType |-> "unset", asVoice |-> FALSE, fileName |-> <<>>, duration |-> FALSE,
     thumbUrl |-> FALSE, emoji |-> FALSE]

\* One extension of each set.
AUDIO_EXTS == {".mp3"}
VIDEO_EXTS == {".mp4"}
IMAGE_EXTS == {".png"}

\* The host's getFileExtension: the extension a name ends with, or "".
getFileExtension(name) ==
    IF name # <<>> /\ name[Len(name)] \in AUDIO_EXTS \cup VIDEO_EXTS \cup IMAGE_EXTS
    THEN name[Len(name)] ELSE ""

parseMediaUrlMeta(u) ==
    [isEmojiScheme |-> u.scheme = "emoji:",
     emojiMd5 |-> u.scheme # "" /\ u.emoji # "none",
     emojiSize |-> u.scheme # "" /\ u.emoji = "both",
     thumbUrl |-> u.scheme = "https:" /\ u.thumb,
     voiceDuration |-> u.scheme = "https:" /\ u.duration,
     videoDuration |-> u.scheme = "https:" /\ u.duration,
     fileName |-> IF u.scheme = "https:" THEN u.qname ELSE <<>>]

\* inferFileNameFromMediaUrl: the last segment of the path, or none.
inferFileNameFromMediaUrl(u) == IF u.scheme = "https:" THEN u.name ELSE <<>>

\* resolveMediaSpec: a ?? b ?? c is the first of the names that is given.
resolveMediaSpec(u, h) ==
    LET meta == parseMediaUrlMeta(u)
        emojiMd5 == h.emoji \/ meta.emojiMd5
        emojiSize == h.emoji \/ meta.emojiSize
        sticker == meta.isEmojiScheme \/ (emojiMd5 /\ emojiSize)
        ext == getFileExtension(IF h.fileName # <<>> THEN h.fileName ELSE u.name)
        kind == IF h.asVoice THEN "voice"
                ELSE IF h.contentType = "audio/" THEN "voice"
                ELSE IF h.contentType = "video/" THEN "video"
                ELSE IF h.contentType = "image/" THEN "image"
                ELSE IF ext \in AUDIO_EXTS THEN "voice"
                ELSE IF ext \in VIDEO_EXTS THEN "video"
                ELSE IF ext \in IMAGE_EXTS THEN "image"
                ELSE "file"
    IN  [kind |-> IF sticker THEN "emoji" ELSE kind,
         fileName |-> IF sticker THEN <<>>
                      ELSE IF h.fileName # <<>> THEN h.fileName
                      ELSE IF meta.fileName # <<>> THEN meta.fileName
                      ELSE inferFileNameFromMediaUrl(u),
         voiceDuration |-> ~sticker /\ (h.duration \/ meta.voiceDuration),
         videoDuration |-> ~sticker /\ (h.duration \/ meta.videoDuration),
         thumbUrl |-> ~sticker /\ (h.thumbUrl \/ meta.thumbUrl),
         emojiMd5 |-> emojiMd5,
         emojiSize |-> emojiSize]

\* What a call does, in order: the frames it hands to the client, and the
\* updates of lastOutboundAt.
Frame(type, to, text, url, fileName) ==
    [type |-> type, to |-> to, text |-> text, url |-> url, fileName |-> fileName]

\* A frame, followed by the update of lastOutboundAt if the caller gave a
\* status sink.
Sent(frame, statusSink) ==
    IF statusSink THEN <<frame, Frame("lastOutboundAt", <<>>, <<>>, NoUrl, <<>>)>> ELSE <<frame>>

\* How a call ended ("ok", or what it threw) and what it did before.
Ended(result, events) == [result |-> result, events |-> events]

\* fallbackToFile of sendWechatMedia: the name is the spec's, else the one
\* inferred from the URL, else "file" with the URL's extension; it is never
\* empty, so the branch for a missing name is never taken.
fallbackToFile(chatId, u, spec, statusSink) ==
    LET inferredName == IF spec.fileName # <<>> THEN spec.fileName
                        ELSE inferFileNameFromMediaUrl(u)
        fileName == IF inferredName # <<>> THEN inferredName
                    ELSE IF getFileExtension(u.name) = "" THEN <<"file">>
                    ELSE <<"file", getFileExtension(u.name)>>
    IN  Ended("ok", Sent(Frame("send_file", chatId, <<>>, u, fileName), statusSink))

sendWechatMedia_AlwaysLenient(rawChatId, u, h, strict, statusSink) ==
    LET chatId == resolveWechatOutboundTarget(rawChatId)
        spec == resolveMediaSpec(u, h)
        one(type) == Ended("ok", Sent(Frame(type, chatId, <<>>, u, <<>>), statusSink))
    IN  IF chatId = <<>> THEN Ended("no_target", <<>>)
        ELSE IF u.scheme = "" THEN Ended("ok", <<>>)
        ELSE IF spec.kind = "emoji"
        THEN (IF ~spec.emojiMd5 \/ ~spec.emojiSize THEN Ended("ok", <<>>) ELSE one("send_emoji"))
        ELSE IF spec.kind = "voice"
        THEN (IF ~spec.voiceDuration THEN fallbackToFile(chatId, u, spec, statusSink)
              ELSE one("send_voice"))
        ELSE IF spec.kind = "video"
        THEN (IF ~spec.thumbUrl \/ ~spec.videoDuration
              THEN fallbackToFile(chatId, u, spec, statusSink)
              ELSE one("send_video"))
        ELSE IF spec.kind = "image" THEN one("send_image")
        ELSE fallbackToFile(chatId, u, spec, statusSink)

\* sendWechatMedia: the destination is resolved again, a blank reference is
\* passed over, and the reference is sent as what resolveMediaSpec says it
\* is; result "metadata_required" is the throw of strict mode.
sendWechatMedia(rawChatId, u, h, strict, statusSink) ==
    LET chatId == resolveWechatOutboundTarget(rawChatId)
        spec == resolveMediaSpec(u, h)
        one(type) == Ended("ok", Sent(Frame(type, chatId, <<>>, u, <<>>), statusSink))
        missing == IF strict THEN Ended("metadata_required", <<>>) ELSE Ended("ok", <<>>)
    IN  IF chatId = <<>> THEN Ended("no_target", <<>>)
        ELSE IF u.scheme = "" THEN Ended("ok", <<>>)
        ELSE IF spec.kind = "emoji"
        THEN (IF ~spec.emojiMd5 \/ ~spec.emojiSize THEN missing ELSE one("send_emoji"))
        ELSE IF spec.kind = "voice"
        THEN (IF ~spec.voiceDuration
              THEN (IF strict THEN Ended("metadata_required", <<>>)
                    ELSE fallbackToFile(chatId, u, spec, statusSink))
              ELSE one("send_voice"))
        ELSE IF spec.kind = "video"
        THEN (IF ~spec.thumbUrl \/ ~spec.videoDuration
              THEN (IF strict THEN Ended("metadata_required", <<>>)
                    ELSE fallbackToFile(chatId, u, spec, statusSink))
              ELSE one("send_video"))
        ELSE IF spec.kind = "image" THEN one("send_image")
        ELSE fallbackToFile(chatId, u, spec, statusSink)

RECURSIVE sendChunks_LastFirst(_, _, _)
sendChunks_LastFirst(chatId, chunks, statusSink) ==
    IF chunks = <<>> THEN <<>>
    ELSE sendChunks_LastFirst(chatId, Tail(chunks), statusSink)
             \o Sent(Frame("send_text", chatId, Head(chunks), NoUrl, <<>>), statusSink)

\* The loop over the chunks of deliverWechatReply: a frame for each chunk, in
\* order, each followed by the status update.
RECURSIVE sendChunks(_, _, _)
sendChunks(chatId, chunks, statusSink) ==
    IF chunks = <<>> THEN <<>>
    ELSE Sent(Frame("send_text", chatId, Head(chunks), NoUrl, <<>>), statusSink)
             \o sendChunks(chatId, Tail(chunks), statusSink)

\* The loop over the media list of deliverWechatReply: an empty reference is
\* passed over, and the loop ends at the first send that throws.
RECURSIVE sendMediaList(_, _, _)
sendMediaList(chatId, mediaList, statusSink) ==
    IF mediaList = <<>> THEN Ended("ok", <<>>)
    ELSE IF Head(mediaList) = NoUrl THEN sendMediaList(chatId, Tail(mediaList), statusSink)
    ELSE LET first == sendWechatMedia(chatId, Head(mediaList), NoHints, FALSE, statusSink) IN
         IF first.result # "ok" THEN first
         ELSE LET rest == sendMediaList(chatId, Tail(mediaList), statusSink) IN
              Ended(rest.result, first.events \o rest.events)

deliverWechatReply_MediaFirst(isOpen, rawChatId, payload, textLimit, chunkMode, statusSink) ==
    LET chatId == resolveWechatOutboundTarget(rawChatId)
        mediaList == IF Len(payload.mediaUrls) > 0 THEN payload.mediaUrls
                     ELSE IF payload.mediaUrl # NoUrl THEN <<payload.mediaUrl>>
                     ELSE <<>>
        chunks == chunkMarkdownTextWithMode(payload.text, textLimit, chunkMode)
        textChunks == IF Len(chunks) > 0 THEN chunks ELSE <<payload.text>>
        textEvents == IF isBlank(payload.text) THEN <<>>
                      ELSE sendChunks(chatId, textChunks, statusSink)
        media == sendMediaList(chatId, mediaList, statusSink)
    IN  IF ~isOpen THEN Ended("not_connected", <<>>)
        ELSE IF chatId = <<>> THEN Ended("no_target", <<>>)
        ELSE Ended(media.result, media.events \o textEvents)

\* deliverWechatReply; payload.text is the text convertMarkdownTables gave,
\* and isOpen says whether the account has a client that is connected.
deliverWechatReply(isOpen, rawChatId, payload, textLimit, chunkMode, statusSink) ==
    LET chatId == resolveWechatOutboundTarget(rawChatId)
        mediaList == IF Len(payload.mediaUrls) > 0 THEN payload.mediaUrls
                     ELSE IF payload.mediaUrl # NoUrl THEN <<payload.mediaUrl>>
                     ELSE <<>>
        chunks == chunkMarkdownTextWithMode(payload.text, textLimit, chunkMode)
        textChunks == IF Len(chunks) > 0 THEN chunks ELSE <<payload.text>>
        textEvents == IF isBlank(payload.text) THEN <<>>
                      ELSE sendChunks(chatId, textChunks, statusSink)
        media == sendMediaList(chatId, mediaList, statusSink)
    IN  IF ~isOpen THEN Ended("not_connected", <<>>)
        ELSE IF chatId = <<>> THEN Ended("no_target", <<>>)
        ELSE Ended(media.result, textEvents \o media.events)

\* The call recorded in outbox: the entry point, its arguments (text,
\* mediaUrls and mediaUrl are the payload's), the chunks of the text, and how
\* the call ended.
Call(op, to, text, mediaUrls, mediaUrl, textLimit, chunkMode, hints, chunks, ended) ==
    [op |-> op, to |-> to, text |-> text, mediaUrls |-> mediaUrls, mediaUrl |-> mediaUrl,
     textLimit |-> textLimit, chunkMode |-> chunkMode, hints |-> hints, chunks |-> chunks,
     result |-> ended.result, events |-> ended.events]

NoCall == Call("none", <<>>, <<>>, <<>>, NoUrl, 0, "length", NoHints, <<>>, Ended("none", <<>>))

InitConn ==
    /\ created = 0
    /\ wsClients = NoClient
    /\ aborted = {}
    /\ ws = [c \in ClientIds |-> "null"]
    /\ orphans = [c \in ClientIds |-> NoOrphans]
    /\ reconnectTimer = [c \in ClientIds |-> "null"]
    /\ leakedTimers = [c \in ClientIds |-> 0]
    /\ reconnectAttempts = [c \in ClientIds |-> 0]
    /\ delays = [c \in ClientIds |-> <<>>]
    /\ wire = [c \in ClientIds |-> <<>>]
    /\ running = FALSE
    /\ lastError = "none"
    /\ sendLog = <<>>
    /\ frameLog = <<>>
    /\ outbox = NoCall

\* No frame of type "message" arrives in the run.
InitNoInbound ==
    /\ cfg = DefaultConfig
    /\ pairingStore = <<>>
    /\ env = QuietEnv
    /\ debounceMs = 0
    /\ msgPool = {}
    /\ budget = 0
    /\ received = <<>>
    /\ buckets = NoEntries
    /\ turns = <<>>
    /\ suspended = {}
    /\ toolLog = <<>>

Init == InitConn /\ InitNoInbound

Next ==
    \/ StartAccount
    \/ StopAccount
    \/ \E c \in ClientIds : Abort(c)
    \/ \E c \in ClientIds : Connect(c)
    \/ \E c \in ClientIds : Disconnect(c)
    \/ \E c \in ClientIds : SocketOpen(c)
    \/ \E c \in ClientIds : OrphanOpen(c)
    \/ \E c \in ClientIds : RemoteClosing(c)
    \/ \E c \in ClientIds, failed \in BOOLEAN : SocketClose(c, failed)
    \/ \E c \in ClientIds, s \in PendingStates, failed \in BOOLEAN : OrphanClose(c, s, failed)
    \/ \E c \in ClientIds : TimerFire(c)
    \/ \E c \in ClientIds : LeakedTimerFire(c)

\* One client of the account, with every operation of the client and of the
\* gateway on it.  Clients share no state but the account's registry entry
\* and status.
Spec == Init /\ [][Next]_vars

\* The account across restarts: the gateway's operations and the events of
\* the sockets and timers of every client it has created.
NextAccount ==
    \/ StartAccount
    \/ RestartAccount
    \/ StopAccount
    \/ \E c \in ClientIds : Abort(c)
    \/ \E c \in ClientIds : SocketOpen(c)
    \/ \E c \in ClientIds : RemoteClosing(c)
    \/ \E c \in ClientIds, failed \in BOOLEAN : SocketClose(c, failed)
    \/ \E c \in ClientIds, s \in PendingStates, failed \in BOOLEAN : OrphanClose(c, s, failed)
    \/ \E c \in ClientIds : TimerFire(c)

SpecAccount == Init /\ [][NextAccount]_vars

\* One client after startAccount with neither connect() nor disconnect()
\* called on it: the events of its socket and of its reconnect timer, and
\* the outbound primitives.
NextRecover ==
    \/ StartAccount
    \/ \E c \in ClientIds, kind \in Primitives : SendPrimitive(c, kind)
    \/ \E c \in ClientIds : SocketOpen(c)
    \/ \E c \in ClientIds : RemoteClosing(c)
    \/ \E c \in ClientIds, failed \in BOOLEAN : SocketClose(c, failed)
    \/ \E c \in ClientIds : TimerFire(c)

\* The handshake of a connecting socket ends: it opens or it fails.
HandshakeEnds(c) == ws[c] = "CONNECTING" /\ (SocketOpen(c) \/ SocketClose(c, TRUE))

\* Timers fire and handshakes end.
SpecRecover ==
    /\ Init /\ [][NextRecover]_vars
    /\ \A c \in ClientIds : WF_vars(TimerFire(c)) /\ WF_vars(HandshakeEnds(c))

\* One client under the gateway (started, stopped, aborted), the events of
\* its socket and timer, and the frames other than messages that the
\* backend sends it.
NextFrames ==
    \/ StartAccount
    \/ StopAccount
    \/ \E c \in ClientIds : Abort(c)
    \/ \E c \in ClientIds : SocketOpen(c)
    \/ \E c \in ClientIds : RemoteClosing(c)
    \/ \E c \in ClientIds, failed \in BOOLEAN : SocketClose(c, failed)
    \/ \E c \in ClientIds, failed \in BOOLEAN : OrphanClose(c, "CLOSING", failed)
    \/ \E c \in ClientIds : TimerFire(c)
    \/ \E c \in ClientIds, kind \in FrameKinds : OnFrame(c, kind)

SpecFrames == Init /\ [][NextFrames]_vars

\* One client with its life cycle and the outbound primitives called on it.
NextWire ==
    \/ Next
    \/ \E c \in ClientIds, kind \in Primitives : SendPrimitive(c, kind)

SpecWire == Init /\ [][NextWire]_vars

\* One evaluation of the access policy: a configuration, a pairing store, an
\* environment and the one message that arrives, with no debouncer.
InitPolicy ==
    /\ InitConn
    /\ \/ /\ cfg \in DirectConfigs
          /\ pairingStore \in {<<>>, <<IdB>>}
          /\ env \in Envs
          /\ msgPool = DirectMessages
       \/ /\ cfg \in GroupConfigs
          /\ pairingStore = <<>>
          /\ env \in {[QuietEnv EXCEPT !.shouldComputeAuth = b] : b \in BOOLEAN}
          /\ msgPool = GroupMessages
    /\ debounceMs = 0
    /\ budget = 1
    /\ received = <<>>
    /\ buckets = NoEntries
    /\ turns = <<>>
    /\ suspended = {}
    /\ toolLog = <<>>

NextPolicy == \E m \in DirectMessages \cup GroupMessages : OnMessage(m)

SpecPolicy == InitPolicy /\ [][NextPolicy]_vars

\* The inbound pipeline with the debouncer on.
InboundConfigs ==
    {[DefaultConfig EXCEPT !.dmPolicy = "allowlist", !.allowFrom = <<IdA>>,
                           !.groupPolicy = "allowlist",
                           !.groups = OnlyKey(GroupG, GroupEntry("unset", "unset", "true"))],
     [DefaultConfig EXCEPT !.dmPolicy = "open", !.groupPolicy = "open",
                           !.requireMention = "false"]}

InboundMessages ==
    {Message(TRUE, GroupG, IdB, TextX \o TextBlank, "false"),
     Message(TRUE, GroupG, IdB, TextY, "true"),
     Message(TRUE, GroupG, IdB, TextCommand, "true"),
     Message(TRUE, GroupG, IdB, TextBlank, "false"),
     Message(TRUE, GroupG, IdA, TextX, "true"),
     Message(TRUE, GroupG, IdA, TextY, "false"),
     Message(TRUE, TextBlank, IdA, TextX, "true")}
    \cup {Message(FALSE, s, <<>>, TextX, "undefined") : s \in {IdA, IdB}}

InitInbound ==
    /\ InitConn
    /\ cfg \in InboundConfigs
    /\ pairingStore = <<>>
    /\ env = QuietEnv
    /\ debounceMs = DebounceWindow
    /\ msgPool = InboundMessages
    /\ budget = MaxEvents
    /\ received = <<>>
    /\ buckets = NoEntries
    /\ turns = <<>>
    /\ suspended = {}
    /\ toolLog = <<>>

BucketKeys == {buildKey(m) : m \in InboundMessages} \ {<<>>}

NextInbound ==
    \/ \E m \in InboundMessages : OnMessage(m)
    \/ \E k \in BucketKeys : TimerFlush(k)

SpecInbound == InitInbound /\ [][NextInbound]_vars

\* The bucket of key k is removed: by TimerFlush(k), or by the early flush in
\* enqueue; both pass its entries to onFlush.
BucketRemoved(k) == k \in DOMAIN buckets /\ buckets' = Without(buckets, k)

\* Timers fire: a bucket that exists does not stay for ever.
SpecInboundLive == SpecInbound /\ \A k \in BucketKeys : WF_buckets(BucketRemoved(k))

\* The account with the debouncer on: started, its socket opens, frames of
\* type "message" arrive on the open socket, bucket timers elapse, and the
\* account is stopped or aborted.
MessageFrame(c, m) == ws[c] = "OPEN" /\ OnMessage(m)

NextTeardown ==
    \/ StartAccount
    \/ StopAccount
    \/ \E c \in ClientIds : Abort(c)
    \/ \E c \in ClientIds : SocketOpen(c)
    \/ \E c \in ClientIds, m \in InboundMessages : MessageFrame(c, m)
    \/ \E k \in BucketKeys : TimerFlush(k)

SpecTeardown == InitInbound /\ [][NextTeardown]_vars

\* The host asks for the tool policy of a sender in a group.
ResolveToolPolicy(groupId, senderId) ==
    /\ Len(toolLog) < MaxQueries
    /\ toolLog' = Append(toolLog, [groupId |-> groupId, senderId |-> senderId,
                                   policy |-> resolveWechatGroupToolPolicy(cfg, groupId, senderId)])
    /\ UNCHANGED <<cfg, pairingStore, env, debounceMs, msgPool, budget, received, buckets, turns,
                   suspended>>
    /\ UNCHANGED <<connVars, sendLog, frameLog, outbox>>

\* An entry of the groups table with a tool policy (a name, or "unset") and
\* policies by sender.
ToolEntry(tools, toolsBySender) ==
    [allow |-> "unset", enabled |-> "unset", requireMention |-> "unset",
     tools |-> tools, toolsBySender |-> toolsBySender]

\* Tables with or without an entry for the group, for its alias and for "*",
\* each entry with or without tools and with or without a policy for
\* sender a.
ToolTables ==
    LET tables(key, T, S) ==
            {NoEntries} \cup {OnlyKey(key, ToolEntry(t, bs)) :
                                 t \in {"unset", T}, bs \in {NoEntries, OnlyKey(IdA, S)}}
    IN  {[k \in (DOMAIN a) \cup (DOMAIN b) \cup (DOMAIN w) |->
            IF k \in DOMAIN a THEN a[k] ELSE IF k \in DOMAIN b THEN b[k] ELSE w[k]] :
            a \in tables(GroupG, "g.tools", "g.a"),
            b \in tables(GroupAlias(GroupG), "alias.tools", "alias.a"),
            w \in tables(Wildcard, "*.tools", "*.a")}

InitTools ==
    /\ InitConn
    /\ cfg \in {[DefaultConfig EXCEPT !.groups = t] : t \in ToolTables}
    /\ pairingStore = <<>>
    /\ env = QuietEnv
    /\ debounceMs = 0
    /\ msgPool = {}
    /\ budget = 0
    /\ received = <<>>
    /\ buckets = NoEntries
    /\ turns = <<>>
    /\ suspended = {}
    /\ toolLog = <<>>

NextTools ==
    \E groupId \in {GroupG, EmptyStr}, senderId \in {IdA, IdB} : ResolveToolPolicy(groupId, senderId)

SpecTools == InitTools /\ [][NextTools]_vars

\* ---------------------------------------------- inputs of outbound calls
ChunkerTexts == UNION {[1..n -> {"a", "\n"}] : n \in 0..MaxTextLen}

Targets == {EmptyStr, IdA, IdWxA, <<"wx:">>, IdWxWxA}

ReplyTexts == {<<>>, <<" ">>, <<"a">>, <<"a", "b", "c">>, <<"a", "\n", "b">>}

MediaUrls ==
    [scheme : {"https:"},
     name : {<<>>, <<"f">>, <<"f", ".mp3">>, <<"f", ".mp4">>, <<"f", ".png">>},
     emoji : {"none", "both"}, duration : BOOLEAN, thumb : BOOLEAN, qname : {<<>>, <<"q">>}]
        \cup [scheme : {"emoji:"}, name : {<<>>}, emoji : {"none", "md5", "both"},
              duration : {FALSE}, thumb : {FALSE}, qname : {<<>>}]

AllHints ==
    [contentType : {"unset", "audio/", "video/", "image/"}, asVoice : BOOLEAN,
     fileName : {<<>>, <<"h", ".mp4">>}, duration : BOOLEAN, thumbUrl : BOOLEAN,
     emoji : BOOLEAN]

\* The payloads of a reply. The references of the lists: an image, a file
\* without a name, a voice without duration, a complete voice, a sticker
\* without size; the field mediaUrl is absent or a complete video.
Payloads ==
    LET https(name, duration, thumb) ==
            [NoUrl EXCEPT !.scheme = "https:", !.name = name, !.duration = duration,
                          !.thumb = thumb]
        image == https(<<"f", ".png">>, FALSE, FALSE)
        noName == https(<<>>, FALSE, FALSE)
        voiceNoDuration == https(<<"f", ".mp3">>, FALSE, FALSE)
        voice == https(<<"f", ".mp3">>, TRUE, FALSE)
        video == https(<<"f", ".mp4">>, TRUE, TRUE)
        emojiNoSize == [NoUrl EXCEPT !.scheme = "emoji:", !.emoji = "md5"]
    IN  [text : ReplyTexts,
         mediaUrls : {<<>>, <<image>>, <<image, voice>>, <<voice, image>>,
                      <<voiceNoDuration, noName>>, <<emojiNoSize, image>>, <<NoUrl, image>>},
         mediaUrl : {NoUrl, video}]

\* The arguments of sendAttachment: every reference with every hint to one
\* destination, and the references of the replies to every destination, with
\* a caption and without.
AttachmentArgs ==
    [to : {IdA}, caption : {<<>>}, media : MediaUrls, hints : AllHints]
        \cup [to : Targets, caption : {<<>>, <<"a", "b">>},
              media : {NoUrl} \cup {p.mediaUrls[1] : p \in {q \in Payloads : q.mediaUrls # <<>>}},
              hints : {NoHints}]

\* ----------------------------------------------------- outbound calls
\* getWebSocketClient(accountId) returns a client and it is connected.
connected == wsClients # NoClient /\ isConnected(wsClients)

\* The frames of a call go to the socket through send(), in order.
RECURSIVE sendAll(_, _, _)
sendAll(c, w, events) ==
    IF events = <<>> THEN w
    ELSE sendAll(c,
                 IF Head(events).type \in Primitives
                 THEN sendWire(c, w, [type |-> Head(events).type, call |-> 0]) ELSE w,
                 Tail(events))

\* An entry point was called and ended: the call is recorded and its frames
\* are on the wire. Nothing between the connection check of an entry point
\* and its last send waits for I/O, so the socket is open for all its frames.
Outbound(call) ==
    /\ outbox' = call
    /\ wire' = IF call.events = <<>> THEN wire
               ELSE [wire EXCEPT ![wsClients] = sendAll(wsClients, @, call.events)]
    /\ UNCHANGED <<created, wsClients, aborted, ws, orphans, reconnectTimer, leakedTimers,
                   reconnectAttempts, delays, running, lastError>>
    /\ UNCHANGED <<sendLog, frameLog, inVars>>

\* The host calls outbound.chunker. (A run follows one outbound call.)
Chunker ==
    /\ outbox = NoCall
    /\ \E text \in ChunkerTexts, limit \in 1..MaxLimit :
           Outbound(Call("chunker", <<>>, text, <<>>, NoUrl, limit, "length", NoHints,
                         chunker(text, limit), Ended("ok", <<>>)))

\* The reply dispatcher delivers a payload: deliverWechatReply with the
\* account's status sink, text limit and chunk mode.
DeliverReply ==
    /\ outbox = NoCall
    /\ \E to \in Targets, payload \in Payloads, textLimit \in 1..MaxLimit,
          chunkMode \in {"length", "newline"} :
           Outbound(Call("deliverWechatReply", to, payload.text, payload.mediaUrls,
                         payload.mediaUrl, textLimit, chunkMode, NoHints,
                         chunkMarkdownTextWithMode(payload.text, textLimit, chunkMode),
                         deliverWechatReply(connected, to, payload, textLimit, chunkMode, TRUE)))

\* outbound.sendText: one frame with the whole text, blank or not.
OutboundSendText ==
    /\ outbox = NoCall
    /\ \E to \in Targets, text \in ReplyTexts :
           LET target == resolveWechatOutboundTarget(to) IN
           Outbound(Call("sendText", to, text, <<>>, NoUrl, 0, "length", NoHints, <<>>,
                         IF ~connected THEN Ended("not_connected", <<>>)
                         ELSE IF target = <<>> THEN Ended("no_target", <<>>)
                         ELSE Ended("ok", <<Frame("send_text", target, text, NoUrl, <<>>)>>)))

\* outbound.sendMedia: the caption as one frame if it is not blank, then the
\* media reference through sendWechatMedia, to which no strict is passed.
OutboundSendMedia ==
    /\ outbox = NoCall
    /\ \E to \in Targets, text \in ReplyTexts, mediaUrl \in MediaUrls \cup {NoUrl} :
           LET target == resolveWechatOutboundTarget(to)
               caption == IF isBlank(text) THEN <<>>
                          ELSE <<Frame("send_text", target, text, NoUrl, <<>>)>>
               media == IF mediaUrl = NoUrl THEN Ended("ok", <<>>)
                        ELSE sendWechatMedia(target, mediaUrl, NoHints, FALSE, FALSE)
           IN  Outbound(Call("sendMedia", to, text, <<>>, mediaUrl, 0, "length", NoHints, <<>>,
                             IF ~connected THEN Ended("not_connected", <<>>)
                             ELSE IF target = <<>> THEN Ended("no_target", <<>>)
                             ELSE Ended(media.result, caption \o media.events)))

\* A caption or message of an action: deliverWechatReply with the resolved
\* target and the text only, without a status sink, if the text is not blank.
deliverCaption(target, text) ==
    IF isBlank(text) THEN Ended("ok", <<>>)
    ELSE deliverWechatReply(connected, target,
                            [text |-> text, mediaUrls |-> <<>>, mediaUrl |-> NoUrl],
                            MaxLimit, "length", FALSE)

\* handleAction, action sendAttachment: the caption, then the media reference
\* through sendWechatMedia with the hints and strict: true.
SendAttachment ==
    /\ outbox = NoCall
    /\ \E a \in AttachmentArgs :
           LET target == resolveWechatOutboundTarget(a.to)
               text == deliverCaption(target, a.caption)
               media == sendWechatMedia(target, a.media, a.hints, TRUE, FALSE)
           IN  Outbound(Call("sendAttachment", a.to, a.caption, <<>>, a.media, MaxLimit,
                             "length", a.hints, <<>>,
                             IF ~connected THEN Ended("not_connected", <<>>)
                             ELSE IF target = <<>> THEN Ended("no_target", <<>>)
                             ELSE IF a.media = NoUrl THEN Ended("media_required", <<>>)
                             ELSE IF text.result # "ok" THEN text
                             ELSE Ended(media.result, text.events \o media.events)))

\* handleAction, action sticker: emoji says which of md5 and size the
\* parameters give; the message, then the sticker.
Sticker ==
    /\ outbox = NoCall
    /\ \E to \in Targets, emoji \in {"none", "md5", "both"}, message \in {<<>>, <<"a">>} :
           LET target == resolveWechatOutboundTarget(to)
               text == deliverCaption(target, message)
           IN  Outbound(Call("sticker", to, message, <<>>, NoUrl, MaxLimit, "length",
                             [NoHints EXCEPT !.emoji = (emoji = "both")], <<>>,
                             IF ~connected THEN Ended("not_connected", <<>>)
                             ELSE IF target = <<>> THEN Ended("no_target", <<>>)
                             ELSE IF emoji # "both" THEN Ended("metadata_required", <<>>)
                             ELSE IF text.result # "ok" THEN text
                             ELSE Ended("ok", Append(text.events,
                                                     Frame("send_emoji", target, <<>>, NoUrl,
                                                           <<>>)))))

\* pairing.notifyApproval: one frame with the approval message.
NotifyApproval ==
    /\ outbox = NoCall
    /\ \E id \in Targets :
           LET target == resolveWechatOutboundTarget(id) IN
           Outbound(Call("notifyApproval", id, <<"o", "k">>, <<>>, NoUrl, 0, "length", NoHints,
                         <<>>,
                         IF ~connected THEN Ended("not_connected", <<>>)
                         ELSE IF target = <<>> THEN Ended("no_target", <<>>)
                         ELSE Ended("ok", <<Frame("send_text", target, <<"o", "k">>, NoUrl,
                                                  <<>>)>>)))

\* A run follows one outbound call, made at any moment of the connection's
\* life.
NextOutbound ==
    \/ StartAccount
    \/ StopAccount
    \/ \E c \in ClientIds : SocketOpen(c)
    \/ Chunker
    \/ DeliverReply
    \/ OutboundSendText
    \/ OutboundSendMedia
    \/ SendAttachment
    \/ Sticker
    \/ NotifyApproval

SpecOutbound == Init /\ [][NextOutbound]_vars

\* No debouncer (debounceMs 0): every frame starts a call of
\* processWechatInboundMessage, and the host settles what the calls await in
\* any order.
InitAsync ==
    /\ InitConn
    /\ cfg \in InboundConfigs
    /\ pairingStore = <<>>
    /\ env = QuietEnv
    /\ debounceMs = 0
    /\ msgPool = InboundMessages
    /\ budget = MaxEvents
    /\ received = <<>>
    /\ buckets = NoEntries
    /\ turns = <<>>
    /\ suspended = {}
    /\ toolLog = <<>>

NextAsync ==
    \/ \E m \in InboundMessages : MessageArrives(m)
    \/ \E m \in InboundMessages, i \in 1..MaxEvents, at \in Awaits :
           Resume([item |-> [m EXCEPT !.id = i], at |-> at])

SpecAsync == InitAsync /\ [][NextAsync]_vars

\* =================================================================== claims

\* A client on which disconnect() was called last: connect() sets this.ws and
\* only disconnect() sets it back to null.
Disconnected(c) == c \in 1..created /\ ws[c] = "null"

\* C1: after disconnect() (by hand, by stopAccount or by the abort signal) the
\* client is and stays Disconnected until connect() is called again: no
\* reconnect timer is pending and none of its sockets is connecting or open.
C1_DisconnectIsTerminal ==
    \A c \in ClientIds :
        Disconnected(c) => PendingTimers(c) = 0 /\ LiveSockets(c) = 0

\* C2: in every reachable state the account has at most one socket that is
\* connecting or open.
C2_AtMostOneLiveSocket == AccountLiveSockets <= 1

\* The client has used up its attempts: the counter is at the maximum, no
\* timer is pending and none of its sockets is connecting or open.
GaveUp(c) ==
    /\ reconnectAttempts[c] = maxReconnectAttempts
    /\ PendingTimers(c) = 0
    /\ LiveSockets(c) = 0

\* C3: once the attempt counter has reached 10 with no open in between, a
\* close schedules no further timer, and a client that has used up its
\* attempts keeps no timer and no connecting or open socket until connect()
\* is called by hand.
C3_NoReconnectAfterMax ==
    [][\A c \in ClientIds :
          /\ reconnectAttempts[c] >= maxReconnectAttempts
                => PendingTimers(c)' <= PendingTimers(c)
          /\ (GaveUp(c) /\ ~Connect(c)) => GaveUp(c)']_vars

\* The tenth attempt's socket has closed and the client has given up.
C3_Witness == \E c \in ClientIds : GaveUp(c) /\ ws[c] = "CLOSED"

\* C10: at most one reconnect timer is pending at any time, and connect() or
\* disconnect() called while a timer is pending leaves no timer pending.
C10_OneTimerCancelledByCalls ==
    [][\A c \in ClientIds :
          /\ PendingTimers(c)' <= 1
          /\ (Connect(c) \/ Disconnect(c)) => PendingTimers(c)' = 0]_vars

\* Frames of primitive call i now on some client's wire.
OnWire(i) == \E c \in ClientIds : \E k \in 1..Len(wire[c]) : wire[c][k].call = i

Forwarded(t) == t.res.kind = "forwarded"

\* The policy's verdict on message m evaluated on its own.
AllowedAlone(m) == processWechatInboundMessage(m, cfg, env, pairingStore).kind = "forwarded"

\* C4: every event whose text is part of a turn handed to the reply pipeline
\* was itself allowed by the policy when evaluated on its own.
C4_ForwardedEventsWereAllowed ==
    \A i \in 1..Len(turns) :
        Forwarded(turns[i]) =>
            \A j \in 1..Len(turns[i].ids) : AllowedAlone(received[turns[i].ids[j]])

HasText(m) == Trim(m.content) # <<>>

\* C5: with DM policy allowlist a direct message (with text) is handed to the
\* reply pipeline if and only if its sender is allowed by the configured
\* allow list; the pairing store does not change the outcome.
C5_AllowlistIsConfiguredListOnly ==
    \A i \in 1..Len(turns) :
        LET m == turns[i].msg IN
        (~m.isGroupMsg /\ resolveDmPolicy(cfg) = "allowlist" /\ HasText(m)) =>
            (Forwarded(turns[i])
                <=> isSenderAllowed(resolveWechatSenderId(m), normalizeAllowFromEntries(cfg.allowFrom)))

\* A direct message under DM policy pairing whose sender is in neither the
\* configured allow list nor the list read from the pairing store.
PairingCase(m) ==
    /\ ~m.isGroupMsg
    /\ resolveDmPolicy(cfg) = "pairing"
    /\ ~isSenderAllowed(resolveWechatSenderId(m),
                        normalizeAllowFromEntries(cfg.allowFrom)
                            \o normalizeAllowFromEntries(IF env.storeReadFails THEN <<>> ELSE pairingStore))

\* Not forwarded; one upsert; a pairing reply exactly when the upsert created
\* a request; a reply that could not be delivered does not make the call throw.
PairingHandled(t) ==
    /\ ~Forwarded(t)
    /\ t.res.upserts = 1
    /\ (t.res.reply # "none") <=> (env.upsert = "created")
    /\ t.res.reply = "failed" => t.res.kind = "pairing"

\* C6 as stated: every direct message from a sender that is not allow-listed
\* is handled so under DM policy pairing.
C6_PairingHandlesEveryMessage ==
    \A i \in 1..Len(turns) : PairingCase(turns[i].msg) => PairingHandled(turns[i])

\* C6 amended: so is every such message that has text; one whose text is
\* empty after trimming is ignored before the policy is evaluated: no upsert,
\* no reply, not forwarded.
C6_PairingHandlesMessagesWithText ==
    \A i \in 1..Len(turns) :
        PairingCase(turns[i].msg) =>
            IF HasText(turns[i].msg)
            THEN PairingHandled(turns[i])
            ELSE turns[i].res = Outcome("empty", 0, "none")

\* A pairing reply could not be delivered and the call still ended normally.
C6_Witness ==
    \E i \in 1..Len(turns) :
        /\ PairingCase(turns[i].msg)
        /\ HasText(turns[i].msg)
        /\ turns[i].res = Outcome("pairing", 1, "failed")

\* A group event that must mention the bot and does not.
LacksRequiredMention(m) ==
    /\ m.isGroupMsg
    /\ resolveGroupPolicy(cfg) # "disabled"
    /\ resolveGroupRequireMention(cfg, m.fromUserName)
    /\ m.isMentioned \in {"false", "0", "null", "undefined"}

InBucket(i) ==
    \E k \in DOMAIN buckets : \E j \in 1..Len(buckets[k]) : buckets[k][j].id = i

\* The turns that hold message i.
TurnsOf(i) == {n \in 1..Len(turns) : \E j \in 1..Len(turns[n].ids) : turns[n].ids[j] = i}

\* The text of message i is a line of the text of turn n.
IsLineOf(i, n) ==
    LET text == turns[n].msg.content
        line == Trim(received[i].content)
    IN  \E a \in 1..Len(text) :
            /\ a + Len(line) - 1 <= Len(text)
            /\ SubSeq(text, a, a + Len(line) - 1) = line
            /\ a = 1 \/ text[a - 1] = "\n"
            /\ a + Len(line) - 1 = Len(text) \/ text[a + Len(line)] = "\n"

\* Message i was buffered: it got a key and could be debounced.
WasBuffered(i) == buildKey(received[i]) # <<>> /\ shouldDebounce(received[i])

\* Message i is in exactly one turn passed to processing and, if it was
\* buffered, that turn is the message itself or a merged turn of which its
\* trimmed text is a line.
InOneTurn(i) ==
    /\ i <= Len(received)
    /\ Cardinality(TurnsOf(i)) = 1
    /\ WasBuffered(i) =>
           \A n \in TurnsOf(i) :
               IF Len(turns[n].ids) = 1 THEN turns[n].msg = received[i] ELSE IsLineOf(i, n)

\* C8: no event is dropped or passed on twice: at any time an event is either
\* in a bucket and in no turn, or in no bucket and in exactly one turn (alone,
\* or its text a line of that turn); and every event in a bucket is eventually
\* flushed into its one turn.
C8_NeverDropsEvents ==
    /\ [](\A i \in 1..Len(received) :
            IF InBucket(i) THEN TurnsOf(i) = {} ELSE InOneTurn(i))
    /\ \A i \in 1..MaxEvents : (i <= Len(received) /\ InBucket(i)) ~> InOneTurn(i)

\* Two buffered events were flushed by the timer into one merged turn.
C8_Witness ==
    \E n \in 1..Len(turns) :
        /\ Len(turns[n].ids) >= 2
        /\ \A j \in 1..Len(turns[n].ids) : IsLineOf(turns[n].ids[j], n)
        /\ buckets = NoEntries

\* ------------------------------------------------------ ordering claims
\* C19: handlers of inbound messages run one at a time, so that no call of
\* processWechatInboundMessage is waiting when the next frame arrives, and
\* the turns that reach the reply pipeline do so in the order in which their
\* frames arrived.
C19_HandlersRunOneAtATime ==
    /\ [][\A m \in InboundMessages : MessageArrives(m) => suspended = {}]_vars
    /\ [](\A a, b \in 1..Len(turns) :
             (a < b /\ Forwarded(turns[a]) /\ Forwarded(turns[b]))
                 => turns[a].ids[1] < turns[b].ids[1])

\* The conversation id and the sender id of m are present, its text is not
\* empty and it is not a control command.
Bufferable(m) ==
    /\ Trim(m.fromUserName) # <<>>
    /\ resolveWechatSenderId(m) # <<>>
    /\ Trim(m.content) # <<>>
    /\ ~isControlCommandMessage(Trim(m.content))

IdsOf(entries) == [j \in 1..Len(entries) |-> entries[j].id]

\* C20: only events with a key, a text and no control command are in a
\* bucket or in a turn of several events; any other event is passed to
\* processing unchanged, in a turn of its own, in the step in which it
\* arrives, right after the turn made of the bucket of its key if there was
\* one, and that bucket is gone.
C20_OnlyBufferableEventsAreBuffered ==
    /\ [](\A k \in DOMAIN buckets : \A j \in 1..Len(buckets[k]) : Bufferable(buckets[k][j]))
    /\ [](\A n \in 1..Len(turns) :
             Len(turns[n].ids) > 1 =>
                 \A j \in 1..Len(turns[n].ids) : Bufferable(received[turns[n].ids[j]]))
    /\ [][\A m \in InboundMessages : (OnMessage(m) /\ ~Bufferable(m)) =>
            LET item == [m EXCEPT !.id = Len(received) + 1]
                key == buildKey(item)
                last == turns'[Len(turns')]
            IN  /\ last.ids = <<item.id>> /\ last.msg = item
                /\ IF key \in DOMAIN buckets
                   THEN /\ Len(turns') = Len(turns) + 2
                        /\ turns'[Len(turns) + 1].ids = IdsOf(buckets[key])
                        /\ buckets' = Without(buckets, key)
                   ELSE /\ Len(turns') = Len(turns) + 1
                        /\ buckets' = buckets
                /\ SubSeq(turns', 1, Len(turns)) = turns]_vars

\* A control command arrived third and the two events buffered under its key
\* were flushed as one turn just before it.
C20_Witness ==
    /\ Len(turns) = 2
    /\ turns[1].ids = <<1, 2>>
    /\ turns[2].ids = <<3>>
    /\ isControlCommandMessage(Trim(received[3].content))
    /\ buildKey(received[3]) = buildKey(received[1])

\* -------------------------------------------------------- merge claims
\* The events of turn n, in arrival order.
EventsOf(n) == [j \in 1..Len(turns[n].ids) |-> received[turns[n].ids[j]]]

\* Turn n of one event carries it unchanged; turn n of several events carries
\* the last of them with the text replaced by the given lines joined by new
\* lines and with the mentioned flag true iff the flag of one of them is.
MergedFrom(n, lines) ==
    LET events == EventsOf(n)
        last == events[Len(events)]
        msg == turns[n].msg
    IN  IF Len(events) = 1 THEN msg = last
        ELSE /\ msg.content = JoinLines(SelectSeq(lines, NonEmpty))
             /\ (msg.isMentioned = "true") <=> (\E j \in 1..Len(events) : events[j].isMentioned = "true")
             /\ [msg EXCEPT !.content = last.content, !.isMentioned = last.isMentioned] = last

\* C21 as stated: the text of a turn of several events is the events' texts
\* joined by new lines.
C21_MergeJoinsTexts ==
    \A n \in 1..Len(turns) :
        MergedFrom(n, [j \in 1..Len(turns[n].ids) |-> EventsOf(n)[j].content])

\* C21 amended: it is the events' texts, each with the white space around
\* it removed, joined by new lines.
C21_MergeJoinsTrimmedTexts ==
    \A n \in 1..Len(turns) :
        MergedFrom(n, [j \in 1..Len(turns[n].ids) |-> Trim(EventsOf(n)[j].content)])

\* Three events were merged into one turn, one of them with white space
\* after its text and one with the mentioned flag.
C21_Witness ==
    \E n \in 1..Len(turns) :
        /\ Len(turns[n].ids) = 3
        /\ \E j \in 1..3 : EventsOf(n)[j].content # Trim(EventsOf(n)[j].content)
        /\ \E j \in 1..3 : EventsOf(n)[j].isMentioned = "true"
        /\ EventsOf(n)[3].isMentioned # "true"

\* Events a and b are of the same conversation and of the same sender.
SameSource(a, b) ==
    /\ Trim(a.fromUserName) = Trim(b.fromUserName)
    /\ resolveWechatSenderId(a) = resolveWechatSenderId(b)

TornDown ==
    /\ created > 0
    /\ wsClients = NoClient
    /\ \A c \in 1..created : ws[c] = "null"

\* C23: once the account is torn down no event is left in a bucket: stopping
\* or aborting the account flushed every pending bucket.
C23_TeardownFlushesBuckets == TornDown => buckets = NoEntries

\* ------------------------------------------------- group policy claims
\* The key of the explicit entry of group g in the table: g, else its alias,
\* else none (the empty sequence).
ExplicitKey(g, groups) ==
    IF g \in DOMAIN groups THEN g
    ELSE IF GroupAlias(g) \in DOMAIN groups THEN GroupAlias(g)
    ELSE <<>>

NotDenied(entry) == entry.allow # "false" /\ entry.enabled # "false"

\* The group table allows group g: by its explicit entry if it has one, else
\* by the wildcard entry if there is one.
TableAllows(g, groups) ==
    IF ExplicitKey(g, groups) # <<>> THEN NotDenied(groups[ExplicitKey(g, groups)])
    ELSE Wildcard \in DOMAIN groups /\ NotDenied(groups[Wildcard])

\* The sender of m is in the member allow list of m's conversation.
MemberAllowed(m) ==
    isSenderAllowed(resolveWechatSenderId(m), resolveGroupMemberAllowFrom(cfg, m.fromUserName))

\* Turn t is a group event that was checked against the allow list.
AllowlistChecked(t) ==
    /\ t.msg.isGroupMsg
    /\ HasText(t.msg)
    /\ resolveGroupPolicy(cfg) = "allowlist"

\* C24: a group event whose sender is not in a member allow list passes the
\* allow-list check exactly when the table allows its group: the explicit
\* entry decides if there is one, whatever the wildcard entry says, and the
\* wildcard entry decides otherwise.
C24_ExplicitEntryBeforeWildcard ==
    \A n \in 1..Len(turns) :
        (AllowlistChecked(turns[n]) /\ ~MemberAllowed(turns[n].msg)) =>
            ((turns[n].res.kind # "group_not_allowed")
                <=> TableAllows(turns[n].msg.fromUserName, cfg.groups))

\* A group with an explicit entry that denies it was denied although the
\* wildcard entry allows.
C24_Witness ==
    \E n \in 1..Len(turns) :
        /\ AllowlistChecked(turns[n])
        /\ turns[n].msg.fromUserName \in DOMAIN cfg.groups
        /\ Wildcard \in DOMAIN cfg.groups
        /\ NotDenied(cfg.groups[Wildcard])
        /\ turns[n].res.kind = "group_not_allowed"

\* The member allow list configured for conversation g: under g, else under
\* its alias, else none.
MemberList(g) ==
    IF g \in DOMAIN cfg.groupMembers THEN cfg.groupMembers[g]
    ELSE IF GroupAlias(g) \in DOMAIN cfg.groupMembers THEN cfg.groupMembers[GroupAlias(g)]
    ELSE <<>>

\* C25: under group policy allowlist a group event passes the allow-list
\* check iff the table allows its conversation or its sender is in the member
\* allow list of that conversation.
C25_MemberListOfTheConversation ==
    \A n \in 1..Len(turns) :
        AllowlistChecked(turns[n]) =>
            LET msg == turns[n].msg IN
            ((turns[n].res.kind # "group_not_allowed")
                <=> \/ TableAllows(msg.fromUserName, cfg.groups)
                    \/ isSenderAllowed(resolveWechatSenderId(msg),
                                       normalizeAllowFromEntries(MemberList(msg.fromUserName))))

\* An event of a conversation the table does not allow passed the check: its
\* sender is in the member list filed under the conversation's alias.
C25_Witness ==
    \E n \in 1..Len(turns) :
        /\ AllowlistChecked(turns[n])
        /\ ~TableAllows(turns[n].msg.fromUserName, cfg.groups)
        /\ GroupAlias(turns[n].msg.fromUserName) \in DOMAIN cfg.groupMembers
        /\ turns[n].res.kind # "group_not_allowed"

\* requireMention of the explicit entry of group g, of the wildcard entry
\* and of the account, each "true", "false" or "unset".
MentionSettings(g) ==
    <<IF ExplicitKey(g, cfg.groups) # <<>>
      THEN cfg.groups[ExplicitKey(g, cfg.groups)].requireMention ELSE "unset",
      IF Wildcard \in DOMAIN cfg.groups THEN cfg.groups[Wildcard].requireMention ELSE "unset",
      cfg.requireMention>>

\* The first setting that is defined is "true", or none is defined.
FirstDefinedOrTrue(settings) ==
    LET defined == SelectSeq(settings, LAMBDA x : x # "unset")
    IN  defined = <<>> \/ defined[1] = "true"

\* Turn t is a group event that reached the mention gate.
ReachedMentionGate(t) ==
    /\ t.msg.isGroupMsg
    /\ t.res.kind \notin {"empty", "group_disabled", "group_not_allowed"}

\* C26: a group event that reaches the mention gate is dropped there iff it
\* does not mention the robot and the first defined requireMention among
\* the group's entry, the wildcard entry and the account is true, or none of
\* the three is defined.
C26_RequireMentionResolution ==
    \A n \in 1..Len(turns) :
        ReachedMentionGate(turns[n]) =>
            ((turns[n].res.kind = "no_mention")
                <=> /\ FirstDefinedOrTrue(MentionSettings(turns[n].msg.fromUserName))
                    /\ ~isAtMe(turns[n].msg.isMentioned))

\* An event without a mention passed the gate: its group's entry says false
\* while the wildcard entry says true.
C26_Witness ==
    \E n \in 1..Len(turns) :
        /\ ReachedMentionGate(turns[n])
        /\ MentionSettings(turns[n].msg.fromUserName)[1] = "false"
        /\ MentionSettings(turns[n].msg.fromUserName)[2] = "true"
        /\ ~isAtMe(turns[n].msg.isMentioned)
        /\ turns[n].res.kind # "no_mention"

\* ------------------------------------------------- sender policy claims
\* Turn t is a direct message with text under a DM policy that checks the
\* sender against the allow list.
SenderChecked(t) ==
    /\ ~t.msg.isGroupMsg
    /\ HasText(t.msg)
    /\ resolveDmPolicy(cfg) \in {"allowlist", "pairing"}

\* The list the sender of a direct message is checked against.
CheckedList ==
    effectiveAllowFrom(cfg, FALSE, resolveDmPolicy(cfg), env.shouldComputeAuth,
                       pairingStore, env.storeReadFails)

\* Sender s matches list L: L has the wildcard, or an entry that is s up to
\* normalization and case.
Matches(s, L) ==
    \E i \in 1..Len(L) :
        \/ L[i] = Wildcard
        \/ toLowerCase(normalizeAllowEntry(L[i])) = toLowerCase(normalizeAllowEntry(s))

\* C27: a direct message checked against the allow list is handed on iff its
\* sender matches the list; nobody matches an empty list.
C27_SenderMatchesList ==
    \A n \in 1..Len(turns) :
        SenderChecked(turns[n]) =>
            /\ Forwarded(turns[n]) <=> Matches(resolveWechatSenderId(turns[n].msg), CheckedList)
            /\ CheckedList = <<>> => ~Forwarded(turns[n])

\* A sender written in upper case was handed on by a list that names it in
\* lower case with a channel prefix.
C27_Witness ==
    \E n \in 1..Len(turns) :
        /\ SenderChecked(turns[n])
        /\ turns[n].msg.fromUserName = IdAUpper
        /\ cfg.allowFrom = <<IdWxA>>
        /\ pairingStore = <<>>
        /\ Forwarded(turns[n])

\* C28: no call of processWechatInboundMessage throws, and an event whose
\* sender id is missing is not handed on, whatever the policy settings.
C28_NeverThrowsAndDeniesNoSender ==
    \A n \in 1..Len(turns) :
        /\ turns[n].res.kind # "threw"
        /\ resolveWechatSenderId(turns[n].msg) = EmptyStr => ~Forwarded(turns[n])

\* C29: the outcome for a group event does not depend on allowFrom: with any
\* other allow list in the configuration, and nothing else changed, the same
\* event is handed on or dropped alike.
C29_AllowFromNotUsedForGroups ==
    \A n \in 1..Len(turns) :
        turns[n].msg.isGroupMsg =>
            \A l \in {<<>>, <<IdA>>, <<IdB>>, <<Wildcard>>} :
                AllowedAlone(turns[n].msg)
                    <=> (processWechatInboundMessage(turns[n].msg, [cfg EXCEPT !.allowFrom = l],
                                                     env, pairingStore).kind = "forwarded")

\* -------------------------------------------------- tool policy claims
\* The first of the given policies that is defined, or "unset".
FirstPolicy(policies) ==
    LET defined == SelectSeq(policies, LAMBDA x : x # "unset")
    IN  IF defined = <<>> THEN "unset" ELSE defined[1]

\* The policy entry key has for the sender, and its general policy.
SenderPolicy(key, senderId) ==
    IF key \in DOMAIN cfg.groups /\ senderId \in DOMAIN cfg.groups[key].toolsBySender
    THEN cfg.groups[key].toolsBySender[senderId] ELSE "unset"

GeneralPolicy(key) ==
    IF key \in DOMAIN cfg.groups THEN cfg.groups[key].tools ELSE "unset"

\* C30 as stated: the policy returned is the first defined among the
\* conversation's entry's policy for the sender, the conversation's entry's
\* general policy and the wildcard entry's general policy.
C30_ThreeStepResolution ==
    \A n \in 1..Len(toolLog) :
        LET q == toolLog[n]
            own == ExplicitKey(q.groupId, cfg.groups)
        IN  q.policy = FirstPolicy(<<SenderPolicy(own, q.senderId), GeneralPolicy(own),
                                     GeneralPolicy(Wildcard)>>)

\* C30 amended: the entries under the group id, under its alias and under
\* "*" are asked in this order, each first for its policy for the sender and
\* then for its general policy.
C30_EntryByEntryResolution ==
    \A n \in 1..Len(toolLog) :
        LET q == toolLog[n]
            id == q.groupId
            alias == IF id # <<>> THEN GroupAlias(id) ELSE <<>>
        IN  q.policy = FirstPolicy(<<SenderPolicy(id, q.senderId), GeneralPolicy(id),
                                     SenderPolicy(alias, q.senderId), GeneralPolicy(alias),
                                     SenderPolicy(Wildcard, q.senderId), GeneralPolicy(Wildcard)>>)

\* The wildcard entry's policy for the sender was returned although the
\* wildcard entry has a general policy, and for another sender the general
\* policy of the group's entry was.
C30_Witness ==
    /\ Len(toolLog) = 2
    /\ toolLog[1].policy = "*.a"
    /\ GeneralPolicy(Wildcard) = "*.tools"
    /\ toolLog[2].groupId = GroupG
    /\ toolLog[2].policy = "g.tools"

\* ------------------------------------------ denied groups and their members
\* Turn t is of a group whose explicit entry in the table denies it.
ExplicitlyDenied(t) ==
    /\ AllowlistChecked(t)
    /\ ExplicitKey(t.msg.fromUserName, cfg.groups) # <<>>
    /\ ~NotDenied(cfg.groups[ExplicitKey(t.msg.fromUserName, cfg.groups)])

\* The sender of turn t is in the member allow list of t's conversation.
InMemberList(t) ==
    isSenderAllowed(resolveWechatSenderId(t.msg),
                    normalizeAllowFromEntries(MemberList(t.msg.fromUserName)))

\* C38 as stated: under group policy allowlist an event of a group whose
\* explicit entry has allow = false or enabled = false is never handed to the
\* reply pipeline, whatever the member allow list holds.
C38_DeniedGroupNeverForwarded ==
    \A n \in 1..Len(turns) : ExplicitlyDenied(turns[n]) => ~Forwarded(turns[n])

\* C38 amended: under group policy allowlist an event of a group whose
\* explicit entry has allow = false or enabled = false passes the allow-list
\* check exactly when its sender is in the member allow list of that group,
\* and is handed to the reply pipeline only then.
C38_DeniedGroupForwardsMembersOnly ==
    \A n \in 1..Len(turns) :
        ExplicitlyDenied(turns[n]) =>
            /\ (turns[n].res.kind # "group_not_allowed") <=> InMemberList(turns[n])
            /\ Forwarded(turns[n]) => InMemberList(turns[n])

\* An event of an explicitly denied group was handed on: its sender is in
\* the group's member allow list.
C38_Witness ==
    \E n \in 1..Len(turns) :
        /\ ExplicitlyDenied(turns[n])
        /\ InMemberList(turns[n])
        /\ Forwarded(turns[n])

\* ------------------------------------------------- normalization claims
\* The identifiers of a run: the senders of its turns and the entries of the
\* configured allow list.
IdsOfRun ==
    {resolveWechatSenderId(turns[n].msg) : n \in 1..Len(turns)}
        \cup {cfg.allowFrom[i] : i \in 1..Len(cfg.allowFrom)}

\* The sender of turn t is, as the string it is, an entry of the configured
\* allow list.
LiterallyListed(t) ==
    \E i \in 1..Len(cfg.allowFrom) : cfg.allowFrom[i] = resolveWechatSenderId(t.msg)

\* C39: normalizing an identifier twice gives what normalizing it once gives,
\* identifiers with several channel prefixes included, and a direct message
\* checked against the allow list whose sender is literally an entry of the
\* configured list is handed on.
C39_NormalizationIdempotent ==
    /\ \A x \in IdsOfRun :
           normalizeAllowEntry(normalizeAllowEntry(x)) = normalizeAllowEntry(x)
    /\ \A n \in 1..Len(turns) :
           (SenderChecked(turns[n]) /\ LiterallyListed(turns[n])) => Forwarded(turns[n])

\* ---------------------------------------------------- outbound claims
\* The call in outbox is a call of entry point op that passed the checks of
\* the connection and of the destination.
Delivered(op) ==
    /\ outbox.op = op
    /\ outbox.result \notin {"none", "not_connected", "no_target"}

RECURSIVE Concat(_)
Concat(texts) == IF texts = <<>> THEN <<>> ELSE Head(texts) \o Concat(Tail(texts))

\* C32: for every text and every limit L >= 1 the chunker ends, the chunks
\* concatenated in order are the text, no chunk is longer than L and none
\* is empty.
C32_ChunkingRoundTrip ==
    outbox.op = "chunker" =>
        /\ outbox.textLimit >= 1
        /\ Concat(outbox.chunks) = outbox.text
        /\ \A i \in 1..Len(outbox.chunks) :
               Len(outbox.chunks[i]) >= 1 /\ Len(outbox.chunks[i]) <= outbox.textLimit

\* A text longer than the limit was cut into full chunks and a shorter rest.
C32_Witness ==
    /\ outbox.op = "chunker"
    /\ Len(outbox.text) = MaxTextLen
    /\ Len(outbox.chunks) = 2
    /\ Len(outbox.chunks[2]) < outbox.textLimit

\* The frames among the events of the call, and its text frames.
IsFrame(e) == e.type \in Primitives
IsText(e) == e.type = "send_text"
FramesOf(events) == SelectSeq(events, IsFrame)
TextsSent == [i \in 1..Len(SelectSeq(outbox.events, IsText)) |->
                 SelectSeq(outbox.events, IsText)[i].text]

IsMedia(e) == IsFrame(e) /\ ~IsText(e)
MediaSent == [i \in 1..Len(SelectSeq(outbox.events, IsMedia)) |->
                 SelectSeq(outbox.events, IsMedia)[i].url]

\* a is b with some of its elements left out.
RECURSIVE IsSubSeq(_, _)
IsSubSeq(a, b) ==
    IF a = <<>> THEN TRUE
    ELSE IF b = <<>> THEN FALSE
    ELSE IF Head(a) = Head(b) THEN IsSubSeq(Tail(a), Tail(b))
    ELSE IsSubSeq(a, Tail(b))

\* C40: in one delivered reply every text frame precedes every media frame;
\* the media frames carry references of the list in list order, at most one
\* frame for a reference; and when mediaUrls is not empty no frame carries
\* the reference of the field mediaUrl.
C40_TextBeforeMediaInListOrder ==
    Delivered("deliverWechatReply") =>
        LET frames == FramesOf(outbox.events) IN
        /\ \A i, j \in 1..Len(frames) : (IsText(frames[j]) /\ IsMedia(frames[i])) => j < i
        /\ IsSubSeq(MediaSent,
                    IF outbox.mediaUrls # <<>> THEN outbox.mediaUrls ELSE <<outbox.mediaUrl>>)
        /\ outbox.mediaUrls # <<>> => \A i \in 1..Len(MediaSent) : MediaSent[i] # outbox.mediaUrl

\* A reply with text, two references that were both sent, and a field
\* mediaUrl that was passed over.
C40_Witness ==
    /\ Delivered("deliverWechatReply")
    /\ Len(TextsSent) >= 2
    /\ Len(outbox.mediaUrls) = 2
    /\ MediaSent = outbox.mediaUrls
    /\ outbox.mediaUrl # NoUrl

\* The call in outbox reached its media reference u: it is a reference of
\* a delivered reply (of the list if the list has any, else the field
\* mediaUrl), or the reference of a sendMedia or sendAttachment call that
\* passed the checks of its arguments.
RefsOfCall ==
    IF outbox.op = "deliverWechatReply" /\ outbox.mediaUrls # <<>>
    THEN {outbox.mediaUrls[i] : i \in 1..Len(outbox.mediaUrls)} \ {NoUrl}
    ELSE {outbox.mediaUrl} \ {NoUrl}

Reached(u) ==
    /\ outbox.op \in {"deliverWechatReply", "sendMedia", "sendAttachment"}
    /\ Delivered(outbox.op)
    /\ u \in RefsOfCall

\* The media frames of the call that carry reference u.
FramesFor(u) == SelectSeq(outbox.events, LAMBDA e : IsMedia(e) /\ e.url = u)

\* The entry point runs sendWechatMedia in strict mode.
StrictCall == outbox.op = "sendAttachment"

\* The kind the stated priority order gives reference u with hints h.
PriorityKind(u, h) ==
    LET md5 == h.emoji \/ (u.scheme # "" /\ u.emoji # "none")
        size == h.emoji \/ (u.scheme # "" /\ u.emoji = "both")
        ext == getFileExtension(IF h.fileName # <<>> THEN h.fileName ELSE u.name)
    IN  IF u.scheme = "emoji:" \/ (md5 /\ size) THEN "emoji"
        ELSE IF h.asVoice \/ h.contentType = "audio/" \/ ext \in AUDIO_EXTS THEN "voice"
        ELSE IF h.contentType = "video/" \/ ext \in VIDEO_EXTS THEN "video"
        ELSE IF h.contentType = "image/" \/ ext \in IMAGE_EXTS THEN "image"
        ELSE "file"

FrameTypeOf(kind) ==
    CASE kind = "emoji" -> "send_emoji"
      [] kind = "voice" -> "send_voice"
      [] kind = "video" -> "send_video"
      [] kind = "image" -> "send_image"
      [] OTHER -> "send_file"

\* C33: a reference is classified as a sticker, else as voice (voice hint,
\* audio content type or audio extension), else as video (content type or
\* extension), else as image (content type or extension), else as a file:
\* what a strict send transmits for it is the frame of that kind.
C33_ClassifiedByPriority ==
    \A u \in MediaUrls :
        (Reached(u) /\ StrictCall /\ outbox.result = "ok") =>
            /\ resolveMediaSpec(u, outbox.hints).kind = PriorityKind(u, outbox.hints)
            /\ \A i \in 1..Len(FramesFor(u)) :
                   FramesFor(u)[i].type = FrameTypeOf(PriorityKind(u, outbox.hints))

\* Reference u with hints h is a voice without duration, or a video without
\* thumbnail URL or without duration.
LacksMetadata(u, h) ==
    LET spec == resolveMediaSpec(u, h) IN
    \/ spec.kind = "voice" /\ ~spec.voiceDuration
    \/ spec.kind = "video" /\ (~spec.thumbUrl \/ ~spec.videoDuration)

\* The file name given by the hint, else by the URL's query, else by the
\* URL's path; <<>> if none of them gives one.
InferredName(u, h) ==
    IF h.fileName # <<>> THEN h.fileName ELSE IF u.qname # <<>> THEN u.qname ELSE u.name

\* C34: for a voice without duration and for a video without thumbnail URL
\* or duration, a strict send fails and transmits no frame for the
\* reference; a lenient send transmits exactly one frame for it, a send_file
\* with the file name inferred from the hint or the URL.
C34_FallbackToFile ==
    \A u \in MediaUrls :
        (Reached(u) /\ LacksMetadata(u, outbox.hints)) =>
            IF StrictCall
            THEN outbox.result = "metadata_required" /\ FramesFor(u) = <<>>
            ELSE /\ Len(FramesFor(u)) = 1
                 /\ FramesFor(u)[1].type = "send_file"
                 /\ FramesFor(u)[1].fileName # <<>>
                 /\ FramesFor(u)[1].fileName = InferredName(u, outbox.hints)

\* A reply with a voice reference that has no duration was delivered: the
\* reference went out as a file under the name its URL ends with.
C34_Witness ==
    /\ Delivered("deliverWechatReply")
    /\ \E u \in MediaUrls :
           /\ Reached(u)
           /\ LacksMetadata(u, outbox.hints)
           /\ Len(FramesFor(u)) = 1
           /\ FramesFor(u)[1].fileName = u.name

\* C35: a call of sendAttachment or of outbound.sendMedia whose reference
\* lacks metadata its kind requires (a sticker without md5 or size, a voice
\* without duration, a video without thumbnail URL or duration) ends with a
\* failure: no fallback, no skipped send.
C35_OperatorSendsAreStrict ==
    \A u \in MediaUrls :
        (/\ outbox.op \in {"sendAttachment", "sendMedia"}
         /\ Reached(u)
         /\ \/ LacksMetadata(u, outbox.hints)
            \/ LET spec == resolveMediaSpec(u, outbox.hints) IN
               spec.kind = "emoji" /\ (~spec.emojiMd5 \/ ~spec.emojiSize))
            => outbox.result = "metadata_required"

\* C36: for a reference that is a generic file and for which neither the
\* hint nor the URL gives a file name, a strict send fails and a lenient send
\* is skipped: no frame is transmitted for it.
C36_NoNameNoFileSend ==
    \A u \in MediaUrls :
        (/\ Reached(u)
         /\ resolveMediaSpec(u, outbox.hints).kind = "file"
         /\ InferredName(u, outbox.hints) = <<>>)
            => /\ FramesFor(u) = <<>>
               /\ StrictCall => outbox.result # "ok"

\* C37: a call whose destination is empty once its channel prefix is
\* stripped fails and transmits nothing, and no frame of any call carries a
\* toWxid that is empty or begins with a channel prefix.
C37_DestinationNormalized ==
    /\ (outbox.op \notin {"none", "chunker"} /\ normalizeWechatTarget(outbox.to) = <<>>)
           => (outbox.result # "ok" /\ outbox.events = <<>>)
    /\ \A i \in 1..Len(outbox.events) :
           IsFrame(outbox.events[i]) =>
               /\ outbox.events[i].to # <<>>
               /\ Head(outbox.events[i].to) \notin ChannelPrefixes

\* ---------------------------------------------------- reconnect claims
\* C11: the attempt counter is set to zero only by a socket's open event; any
\* other step leaves it alone or adds exactly one to it together with one
\* more armed timer; and it stays within 0..10.
C11_CounterResetOnlyOnOpen ==
    [][\A c \in ClientIds :
          /\ reconnectAttempts[c]' \in 0..maxReconnectAttempts
          /\ (reconnectAttempts[c] # 0 /\ reconnectAttempts[c]' = 0)
                => SocketOpen(c) \/ OrphanOpen(c)
          /\ (reconnectAttempts[c]' # reconnectAttempts[c] /\ reconnectAttempts[c]' # 0)
                => /\ reconnectAttempts[c]' = reconnectAttempts[c] + 1
                   /\ PendingTimers(c)' = PendingTimers(c) + 1
                   /\ \E failed \in BOOLEAN :
                        \/ SocketClose(c, failed)
                        \/ \E s \in PendingStates : OrphanClose(c, s, failed)]_vars

\* A socket opened after a reconnect timer had fired: the counter is back at 0.
C11_Witness ==
    \E c \in ClientIds :
        ws[c] = "OPEN" /\ reconnectTimer[c] = "stale" /\ reconnectAttempts[c] = 0

\* C12 as stated: the first delay after the counter was 0 is 1000 ms and each
\* further one is twice the one before, up to 30000 ms.
C12_BackoffStartsAtOneSecond ==
    \A c \in ClientIds : \A i \in 1..Len(delays[c]) :
        IF i = 1 THEN delays[c][i] = 1000
        ELSE delays[c][i] = (IF 2 * delays[c][i - 1] < 30000 THEN 2 * delays[c][i - 1] ELSE 30000)

\* C12 amended: the first delay is 2000 ms; each further one is twice the one
\* before, up to 30000 ms.
C12_BackoffStartsAtTwoSeconds ==
    \A c \in ClientIds : \A i \in 1..Len(delays[c]) :
        IF i = 1 THEN delays[c][i] = 2000
        ELSE delays[c][i] = (IF 2 * delays[c][i - 1] < 30000 THEN 2 * delays[c][i - 1] ELSE 30000)

\* The delays have reached the cap and stayed there.
C12_Witness ==
    \E c \in ClientIds : Len(delays[c]) >= 6 /\ delays[c][5] = 30000 /\ delays[c][6] = 30000

\* C13: attempt n (the counter's value when the timer is armed) is delayed
\* min(1000 * 2^n, 30000) ms; the delays of consecutive attempts never
\* decrease and never exceed 30000 ms.
C13_DelayFormula ==
    \A c \in ClientIds :
        /\ Len(delays[c]) = reconnectAttempts[c]
        /\ \A n \in 1..Len(delays[c]) :
            /\ delays[c][n] = (IF 1000 * 2^n < 30000 THEN 1000 * 2^n ELSE 30000)
            /\ delays[c][n] <= 30000
            /\ n > 1 => delays[c][n - 1] <= delays[c][n]

\* All ten attempts of a run were scheduled.
C13_Witness ==
    \E c \in ClientIds : Len(delays[c]) = maxReconnectAttempts /\ reconnectTimer[c] = "pending"

\* C14: when connect() returns (by hand or in startAccount) the handshake has
\* succeeded or failed: the socket is not connecting.
C14_ConnectReturnsSettled ==
    [][\A c \in ClientIds :
          (Connect(c) \/ startAccount(c)) => ws[c]' \in {"OPEN", "CLOSED"}]_vars

\* C15: once the registered client of the account has used up its attempts
\* (its last socket closed, no timer pending), the status of the account is
\* not running with a last error, until the account is started again.
C15_ExhaustedReportsNotRunning ==
    \A c \in ClientIds :
        (wsClients = c /\ ws[c] = "CLOSED" /\ GaveUp(c)) => ~running /\ lastError # "none"

\* C16: with timers firing and disconnect() not called, a client whose
\* socket has closed is eventually connected again with the attempt counter
\* at 0, unless the backend refuses all ten reconnect attempts.
C16_ReconnectsUnlessAllRefused ==
    \A c \in ClientIds :
        (ws[c] = "CLOSED") ~> ((ws[c] = "OPEN" /\ reconnectAttempts[c] = 0) \/ GaveUp(c))

\* The backend accepted the last of the ten attempts.
C16_Witness ==
    \E c \in ClientIds :
        /\ ws[c] = "OPEN" /\ reconnectAttempts[c] = 0
        /\ reconnectTimer[c] = "stale" /\ running

\* C17: each time a socket of the client opens, onConnect runs (the status
\* is running) and an auth frame is transmitted; and the first frame
\* transmitted on the client's socket is the auth frame.
C17_AuthFirstOnEveryOpen ==
    /\ [][\A c \in ClientIds :
            (SocketOpen(c) \/ OrphanOpen(c))
                => running' /\ wire[c]' = Append(wire[c], AuthFrame)]_vars
    /\ [](\A c \in ClientIds : wire[c] # <<>> => wire[c][1] = AuthFrame)

\* The frames that are only logged.
QuietKinds == {"ping", "auth", "send_result", "unknown", "malformed"}

\* C18: a frame of kind ping, auth or send_result, of an unknown kind, or one
\* that fails to parse fires no callback and changes neither the sockets nor
\* the attempt counter nor the timers nor the status.
C18_QuietFramesChangeNothing ==
    [][\A c \in ClientIds : \A kind \in QuietKinds :
          OnFrame(c, kind)
            => /\ frameLog' = Append(frameLog, [kind |-> kind, callback |-> "none"])
               /\ UNCHANGED <<ws, orphans, reconnectAttempts, reconnectTimer, leakedTimers,
                              running, lastError, turns>>]_vars

\* A frame that failed to parse and a frame of unknown kind were handled and
\* the client is connected and running.
C18_Witness ==
    /\ Len(frameLog) = 2
    /\ frameLog[1].kind = "malformed" /\ frameLog[2].kind = "unknown"
    /\ \E c \in ClientIds : ws[c] = "OPEN" /\ reconnectAttempts[c] = 0 /\ running

====
